---- MODULE Spec2Model ----
(***************************************************************************)
(* Model of xmtp_mls/src/subscriptions.rs: the welcome processor           *)
(* (process_streamed_welcome), the conversation stream                     *)
(* (stream_conversations), the all-messages multiplexer                    *)
(* (stream_all_messages) and the callback task around it                   *)
(* (stream_all_messages_with_callback).                                    *)
(*                                                                         *)
(* Collaborators that live outside subscriptions.rs (the per-group fan-in  *)
(* stream_messages, the storage queries, the MLS engine, the welcome       *)
(* transport, the task handle) are modelled from their contracts in        *)
(* spec.md sections 4.4, 4.6 and 6.                                        *)
(***************************************************************************)
EXTENDS Integers, Sequences, FiniteSets, TLC

\* ------------------------------------------------------------------ bounds
MaxTransportErrors == 1
MaxMsgs == 2
MaxRedeliver == 1
MaxRetries == 1
MaxAfterJoin == 1
BusCapacity == 1
MaxPublished == 2
MaxUpdates == 2
MaxWaitCalls == 2

\* ------------------------------------------------------------- the world
\* Conversations 1 and 2 exist when the stream is started, 3 and 4 are
\* created while it runs.
Groups == 1 .. 4
InitialGroups == {1, 2}
NewGroups == Groups \ InitialGroups
\* While the all-messages stream runs, group 3 is created remotely and
\* group 4 by this client.
RemoteGroups == {3}
LocalGroups == {4}

ConvType(g) == IF g % 2 = 1 THEN "Group" ELSE "Dm"
CreatedAt(g) == 100 + g

\* The welcome envelope that invites this installation to group g carries a
\* server-assigned id which is not the group id.
WelcomeIdOf(g) == 10 + g
WelcomeIds == {WelcomeIdOf(g) : g \in Groups}
GroupOfWelcome(w) == w - 10
NoWelcome == 0

Filters == {"None", "Group", "Dm"}

Range(s) == {s[i] : i \in 1 .. Len(s)}
Max(a, b) == IF a >= b THEN a ELSE b

VARIABLES
    \* storage and network
    stored,             \* local StoredGroup rows: [id, welcome_id]
    pos,                \* per group: position the store has recorded
    sent,               \* per group: number of messages sent on the network
    invited,            \* welcomes the server holds for this installation
    redelivered,        \* number of welcome re-deliveries so far
    \* stream_conversations
    conversation_type,  \* the Option<ConversationType> argument
    subscribed,         \* the welcome subscription and the bus receiver exist
    subscription,       \* items waiting on the welcome subscription
    event_queue,        \* events waiting in the broadcast receiver
    convo_out,          \* items yielded by stream_conversations
    poll_next,          \* the side futures::stream::select polls first
    convo_ended,        \* both sides of the conversation stream have ended
    \* stream_all_messages
    pc,                 \* position of the stream's body
    group_id_to_info,
    messages_stream,
    new_messages_stream,
    extra_messages,
    yielded,            \* items yielded by stream_all_messages
    wake,               \* the select! branch taken at the last wake
    \* process_streamed_welcome calls
    calls,
    \* stream_all_messages_with_callback
    task,               \* the spawned task
    callback_log,       \* number of callback invocations
    after_join,         \* events produced after join completed
    \* StreamHandle
    ready_tx,           \* the oneshot sender `tx` moved into the task
    start,              \* StreamHandle::start, Option of the receiver `rx`
    wait,               \* the caller's position in wait_for_ready
    wait_calls,         \* calls of wait_for_ready so far
    join_result,        \* what join returned
    \* filter views of a bus receiver
    stream_kind,        \* which stream_* view owns the receiver
    bus_in,             \* items the BroadcastStream has produced
    bus_out,            \* items the view has yielded
    published,          \* events sent on the bus so far
    \* history
    lagged,             \* conversations whose NewGroup event lag dropped
    late_groups         \* conversations created after wait_for_ready returned

vars == <<stored, pos, sent, invited, redelivered, conversation_type,
          subscribed, subscription, event_queue, convo_out, pc,
          group_id_to_info, messages_stream, new_messages_stream,
          extra_messages, yielded, wake, calls, task, callback_log,
          after_join, ready_tx, start, wait, wait_calls, join_result,
          stream_kind, bus_in, bus_out, published, lagged, late_groups,
          poll_next, convo_ended>>

storeVars == <<stored, pos, sent, invited, redelivered>>
convoVars == <<conversation_type, subscribed, subscription, event_queue,
               convo_out>>
muxVars == <<pc, group_id_to_info, messages_stream, new_messages_stream,
             extra_messages, yielded, wake>>
callVars == <<calls>>
taskVars == <<task, callback_log, after_join>>
handleVars == <<ready_tx, start, wait, wait_calls, join_result>>
busVars == <<stream_kind, bus_in, bus_out, published>>
traceVars == <<lagged, late_groups>>
selectVars == <<poll_next, convo_ended>>

\* No fan-in (before the first poll, and the rebuilt one outside a rebuild).
NoStream == [open |-> FALSE, ended |-> FALSE, next |-> <<>>, ready |-> <<>>]
NoWake == [branch |-> "none", group |-> 0]

\* ---------------------------------------------------------------- storage
StoredGroup(g, w) == [id |-> g, welcome_id |-> w]

NotQueried == [status |-> "not_queried", group |-> 0, err |-> "none"]

\* conn.find_group_by_welcome_id(id): Ok(Some(group)), Ok(None) or Err(e)
FindGroupByWelcomeId(store, w, dbOk) ==
    IF ~dbOk
    THEN [status |-> "error", group |-> 0, err |-> "StorageError"]
    ELSE IF \E r \in store : r.welcome_id = w
         THEN [status |-> "found",
               group |-> (CHOOSE r \in store : r.welcome_id = w).id,
               err |-> "none"]
         ELSE [status |-> "none", group |-> 0, err |-> "none"]

\* find_groups(GroupQueryArgs::default().maybe_conversation_type(ct))
FindGroups(store, ct) ==
    {r.id : r \in {x \in store : ct = "None" \/ ConvType(x.id) = ct}}

\* MlsGroup::create_from_encrypted_welcome inside provider.transaction_async:
\* the row is committed on success and nothing is left behind on error.  A
\* welcome whose conversation is already materialized cannot be applied again.
CreateFromEncryptedWelcome(store, w, engineOk) ==
    IF engineOk /\ ~(\E r \in store : r.welcome_id = w)
    THEN [ok |-> TRUE, group |-> GroupOfWelcome(w), err |-> "none",
          store |-> store \cup {StoredGroup(GroupOfWelcome(w), w)}]
    ELSE [ok |-> FALSE, group |-> 0,
          err |-> IF engineOk THEN "WelcomeAlreadyProcessed"
                  ELSE "EngineError",
          store |-> store]

\* ------------------------------------------------ process_streamed_welcome
NoErr == [variant |-> "none", text |-> "none"]
Ok(g) == [ok |-> TRUE, group |-> g, err |-> NoErr]
Err(variant, text) ==
    [ok |-> FALSE, group |-> 0, err |-> [variant |-> variant, text |-> text]]

\* Mutant: a lookup that finds nothing is swallowed and the call reports the
\* conversation of the welcome as if it had been created.
ProcessStreamedWelcomeReturnLenient(w, creation, lookup) ==
    IF creation.ok
    THEN Ok(creation.group)
    ELSE CASE lookup.status = "found" -> Ok(lookup.group)
           [] lookup.status = "none" -> Ok(GroupOfWelcome(w))
           [] OTHER -> Err("Generic", lookup.err)

\* Mutant: the error arms of the match are swapped.
ProcessStreamedWelcomeReturnSwapped(w, creation, lookup) ==
    IF creation.ok
    THEN Ok(creation.group)
    ELSE CASE lookup.status = "found" -> Ok(lookup.group)
           [] lookup.status = "none" -> Err("Generic", lookup.err)
           [] OTHER -> Err("Generic", creation.err)

\* Lines 296-315: what the call returns, given the result of the creation
\* (after retries) and of the lookup by welcome id.
ProcessStreamedWelcomeReturn(w, creation, lookup) ==
    IF creation.ok
    THEN Ok(creation.group)
    ELSE CASE lookup.status = "found" -> Ok(lookup.group)
           [] lookup.status = "none" -> Err("Generic", creation.err)
           [] OTHER -> Err("Generic", lookup.err)

\* The whole call run without interleaving, as the conversation stream's
\* filter_map closure runs it for one welcome.
ProcessStreamedWelcome(store, w, engineOk, dbOk) ==
    LET creation == CreateFromEncryptedWelcome(store, w, engineOk)
        lookup == IF creation.ok THEN NotQueried
                  ELSE FindGroupByWelcomeId(store, w, dbOk)
    IN  [ret |-> ProcessStreamedWelcomeReturn(w, creation, lookup),
         store |-> creation.store]

\* One call of process_streamed_welcome, step by step.
Callers == {"convo_stream", "all_messages_stream"}
NoCreation == [ok |-> FALSE, group |-> 0, err |-> "none"]
IdleCall == [pc |-> "idle", w |-> NoWelcome, attempts |-> 0,
             creation |-> NoCreation, lookup |-> NotQueried,
             ret |-> Err("none", "none")]

\* line 272: extract_welcome_message(welcome)?
WelcomeCall(c, w, decodes) ==
    /\ calls[c].pc \in {"idle", "done"}
    /\ calls' = [calls EXCEPT ![c] =
            IF decodes
            THEN [IdleCall EXCEPT !.pc = "create", !.w = w]
            ELSE [IdleCall EXCEPT !.pc = "done", !.w = w,
                                  !.ret = Err("Client", "DecodeError")]]
    /\ UNCHANGED <<selectVars, handleVars, busVars, traceVars, storeVars,
                   convoVars, muxVars, taskVars>>

\* lines 273-294: one attempt of the creation inside retry_async!
WelcomeCreate(c, engineOk, retryable) ==
    /\ calls[c].pc = "create"
    /\ LET cur == calls[c]
           r == CreateFromEncryptedWelcome(stored, cur.w, engineOk)
           creation == [ok |-> r.ok, group |-> r.group, err |-> r.err]
       IN  /\ stored' = r.store
           /\ calls' = [calls EXCEPT ![c] =
                IF r.ok
                THEN [cur EXCEPT !.pc = "done", !.creation = creation,
                        !.ret = ProcessStreamedWelcomeReturn(cur.w, creation,
                                                             NotQueried)]
                ELSE IF retryable /\ cur.attempts < MaxRetries
                     THEN [cur EXCEPT !.attempts = cur.attempts + 1]
                     ELSE [cur EXCEPT !.pc = "lookup",
                                      !.creation = creation]]
    /\ UNCHANGED <<selectVars, handleVars, busVars, traceVars, pos, sent,
                   invited, redelivered, convoVars, muxVars, taskVars>>

\* lines 296-313: the lookup after a failed creation
WelcomeLookup(c, dbOk) ==
    /\ calls[c].pc = "lookup"
    /\ LET cur == calls[c]
           lookup == FindGroupByWelcomeId(stored, cur.w, dbOk)
       IN  calls' = [calls EXCEPT ![c] =
                [cur EXCEPT !.pc = "done", !.lookup = lookup,
                    !.ret = ProcessStreamedWelcomeReturn(cur.w, cur.creation,
                                                         lookup)]]
    /\ UNCHANGED <<selectVars, handleVars, busVars, traceVars, storeVars,
                   convoVars, muxVars, taskVars>>

\* client.sync_welcomes: the other path that materializes welcomes the
\* server holds; each welcome is applied in its own transaction.
SyncWelcome(w) ==
    /\ w \in invited
    /\ ~(\E r \in stored : r.welcome_id = w)
    /\ stored' = CreateFromEncryptedWelcome(stored, w, TRUE).store
    /\ UNCHANGED <<selectVars, handleVars, busVars, traceVars, pos, sent,
                   invited, redelivered, convoVars, muxVars, callVars,
                   taskVars>>

\* ---------------------------------------------------- stream_conversations
\* WelcomeOrGroup, lines 392-395
WelcomeItem(w) == [tag |-> "Welcome", ok |-> TRUE, w |-> w, group |-> 0]
GroupItem(g) == [tag |-> "Group", ok |-> TRUE, w |-> NoWelcome, group |-> g]

NewGroupEvent(g) == [ev |-> "NewGroup", group |-> g, updates |-> <<>>]

\* What BroadcastStream yields in place of the events its receiver missed:
\* Err(BroadcastStreamRecvError::Lagged(n)).
Lagged == [ev |-> "Lagged", group |-> 0, updates |-> <<>>]

\* The broadcast channel as one receiver sees it: at most BusCapacity
\* events are retained; a send to a full channel overwrites the oldest
\* retained event, and the receiver's next item is the lag notification.
Retained(queue) == SelectSeq(queue, LAMBDA e : e.ev # "Lagged")
BusSend(queue, event) ==
    IF Len(Retained(queue)) < BusCapacity THEN Append(queue, event)
    ELSE <<Lagged>> \o Tail(Retained(queue)) \o <<event>>
BusDropped(queue) ==
    IF Len(Retained(queue)) < BusCapacity THEN {}
    ELSE {Head(Retained(queue))}
LaggedGroups(queue) ==
    {e.group : e \in {d \in BusDropped(queue) : d.ev = "NewGroup"}}

\* LocalEvents::group_filter, lines 69-76
GroupFilter(event) == event.ev = "NewGroup"

\* What can go wrong while one item is resolved.
Faults == [engine : BOOLEAN, db : BOOLEAN, meta : BOOLEAN]

\* process_streamed_convo, lines 376-389
ProcessStreamedConvo(item, store, f) ==
    LET r == IF item.tag = "Welcome"
             THEN IF item.ok
                  THEN ProcessStreamedWelcome(store, item.w, f.engine, f.db)
                  ELSE [ret |-> Err("Api", "TransportError"),
                        store |-> store]
             ELSE [ret |-> Ok(item.group), store |-> store]
    IN  IF ~r.ret.ok
        THEN [ret |-> IF item.tag = "Welcome" /\ item.ok
                      THEN Err("Client", r.ret.err.text)
                      ELSE r.ret,
              conversation_type |-> "none", store |-> r.store]
        ELSE IF ~f.meta
             THEN [ret |-> Err("Group", "MetadataError"),
                   conversation_type |-> "none", store |-> r.store]
             ELSE [ret |-> r.ret,
                   conversation_type |-> ConvType(r.ret.group),
                   store |-> r.store]

\* Mutant: the conversation_type argument is not applied.
StreamConversationsFilterKeepAll(ct, resolved) ==
    [emit |-> TRUE, item |-> resolved.ret]

\* The filter_map closure of stream_conversations, lines 365-370:
\* Ok of another type -> no item; Ok of the type -> Ok item; Err -> Err item.
StreamConversationsFilter(ct, resolved) ==
    IF ~resolved.ret.ok
    THEN [emit |-> TRUE, item |-> resolved.ret]
    ELSE [emit |-> ct = "None" \/ ct = resolved.conversation_type,
          item |-> resolved.ret]

\* One item of the merged stream (futures::stream::select of the bus
\* receiver and the welcome subscription), resolved and filtered.
ConvoSources == {"event_queue", "subscription"}
SourceReady(src) ==
    IF src = "event_queue" THEN event_queue # <<>> ELSE subscription # <<>>
SourceHead(src) ==
    IF src = "event_queue" THEN GroupItem(Head(event_queue).group)
    ELSE Head(subscription)
\* lines 348-355: the event_queue side drops the lag notification and
\* every event group_filter does not keep, before process_streamed_convo.
SourcePasses(src) == src = "subscription" \/ GroupFilter(Head(event_queue))
ConvoResolved(src, f) ==
    IF SourcePasses(src) THEN ProcessStreamedConvo(SourceHead(src), stored, f)
    ELSE [ret |-> Ok(0), conversation_type |-> "none", store |-> stored]
ConvoFiltered(src, f) ==
    IF SourcePasses(src)
    THEN StreamConversationsFilter(conversation_type, ConvoResolved(src, f))
    ELSE [emit |-> FALSE, item |-> Ok(0)]
ConsumeSource(src) ==
    /\ event_queue' = IF src = "event_queue" THEN Tail(event_queue)
                      ELSE event_queue
    /\ subscription' = IF src = "subscription" THEN Tail(subscription)
                       ELSE subscription

\* stream.next() on the stream returned by stream_conversations
ConvoNext(src, f) ==
    /\ pc = "off" /\ subscribed
    /\ SourceReady(src)
    /\ ConsumeSource(src)
    /\ stored' = ConvoResolved(src, f).store
    /\ convo_out' = IF ConvoFiltered(src, f).emit
                    THEN Append(convo_out, ConvoFiltered(src, f).item)
                    ELSE convo_out
    /\ wake' = [branch |-> IF ~SourcePasses(src) THEN "skipped"
                           ELSE IF ConvoResolved(src, f).ret.ok THEN "resolved"
                           ELSE "failed",
                group |-> ConvoResolved(src, f).ret.group]
    /\ UNCHANGED <<selectVars, handleVars, busVars, traceVars, pos, sent,
                   invited, redelivered, conversation_type, subscribed, pc,
                   group_id_to_info, messages_stream, new_messages_stream,
                   extra_messages, yielded, callVars, taskVars>>

\* futures::stream::select(event_queue, subscription), line 357, polled one
\* item at a time.  The event_queue side is itself a filter_map (lines
\* 348-355): one poll of it drops the lag notifications and the events
\* group_filter does not keep, up to the first NewGroup.
OtherSide(side) ==
    IF side = "event_queue" THEN "subscription" ELSE "event_queue"
Passing(queue) == {i \in 1 .. Len(queue) : GroupFilter(queue[i])}
FirstPassing(queue) ==
    CHOOSE i \in Passing(queue) : \A j \in Passing(queue) : i <= j
SideReady(side) ==
    IF side = "event_queue" THEN Passing(event_queue) # {}
    ELSE subscription # <<>>

\* Mutant: the first stream is always polled first.
SelectSideLeftFirst(first) ==
    IF SideReady("event_queue") THEN "event_queue" ELSE "subscription"

\* The side whose item a poll yields: the side polled first when it has an
\* item, the other side otherwise.
SelectSide(first) == IF SideReady(first) THEN first ELSE OtherSide(first)

\* Round-robin: the side polled first changes when that side yields; when
\* it does not, releases of the library differ in whether it changes.
SelectToggle(first) ==
    IF SideReady(first) THEN {OtherSide(first)}
    ELSE {first, OtherSide(first)}

\* stream.next() with an item on at least one side
SelectPoll(f) ==
    /\ pc = "off" /\ subscribed
    /\ SideReady("event_queue") \/ SideReady("subscription")
    /\ LET side == SelectSide(poll_next)
           item == IF side = "event_queue"
                   THEN GroupItem(event_queue[FirstPassing(event_queue)].group)
                   ELSE Head(subscription)
           resolved == ProcessStreamedConvo(item, stored, f)
           filtered == StreamConversationsFilter(conversation_type, resolved)
       IN  /\ event_queue' =
                IF side = "event_queue"
                THEN SubSeq(event_queue, FirstPassing(event_queue) + 1,
                            Len(event_queue))
                ELSE IF poll_next = "event_queue" THEN <<>>
                ELSE event_queue
           /\ subscription' = IF side = "subscription"
                              THEN Tail(subscription) ELSE subscription
           /\ stored' = resolved.store
           /\ convo_out' = IF filtered.emit
                           THEN Append(convo_out, filtered.item)
                           ELSE convo_out
           /\ wake' = [branch |-> IF resolved.ret.ok THEN "resolved"
                                  ELSE "failed",
                       group |-> resolved.ret.group]
    /\ poll_next' \in SelectToggle(poll_next)
    /\ UNCHANGED <<convo_ended, handleVars, busVars, traceVars, pos, sent,
                   invited, redelivered, conversation_type, subscribed, pc,
                   group_id_to_info, messages_stream, new_messages_stream,
                   extra_messages, yielded, callVars, taskVars>>

\* stream.next() with no item on either side: the poll is pending
SelectPending ==
    /\ pc = "off" /\ subscribed
    /\ ~SideReady("event_queue") /\ ~SideReady("subscription")
    /\ event_queue' = <<>>
    /\ poll_next' \in SelectToggle(poll_next)
    /\ UNCHANGED <<convo_ended, handleVars, busVars, traceVars, storeVars,
                   conversation_type, subscribed, subscription, convo_out,
                   muxVars, callVars, taskVars>>

\* ------------------------------------------- filter views of the event bus
\* UserPreferenceUpdate: ConsentUpdate(StoredConsentRecord) and another
\* variant
ConsentUpdate(cr) == [kind |-> "ConsentUpdate", payload |-> cr]
HmacKeyUpdate(key) == [kind |-> "HmacKeyUpdate", payload |-> key]
Updates == {ConsentUpdate(1), ConsentUpdate(2), HmacKeyUpdate(1)}
\* the update lists of an event: up to MaxUpdates different updates
UpdateLists ==
    {u \in UNION {[1 .. n -> Updates] : n \in 0 .. MaxUpdates} :
        \A i, j \in 1 .. Len(u) : u[i] = u[j] => i = j}

SyncMessageEvent == [ev |-> "SyncMessage", group |-> 0, updates |-> <<>>]
OutgoingPreferenceUpdates(updates) ==
    [ev |-> "OutgoingPreferenceUpdates", group |-> 0, updates |-> updates]
IncomingPreferenceUpdate(updates) ==
    [ev |-> "IncomingPreferenceUpdate", group |-> 0, updates |-> updates]
BusEvents ==
    {NewGroupEvent(g) : g \in RemoteGroups} \cup {SyncMessageEvent}
    \cup {OutgoingPreferenceUpdates(u) : u \in UpdateLists}
    \cup {IncomingPreferenceUpdate(u) : u \in UpdateLists}

None == [some |-> FALSE, value |-> 0]
Some(v) == [some |-> TRUE, value |-> v]

\* lines 96-99 and 106-109
ConsentClosure(pu) ==
    IF pu.kind = "ConsentUpdate" THEN Some(pu.payload) ELSE None

\* Mutant: the closure keeps every update.
PreferenceClosureKeepAll(pu) == Some(pu)

\* lines 124-127 and 134-137
PreferenceClosure(pu) ==
    IF pu.kind = "ConsentUpdate" THEN None ELSE Some(pu)

\* updates.into_iter().filter_map(closure).collect(): the Some values of
\* the closure, in the order of the list
ConsentFilterMap(updates) ==
    LET kept == SelectSeq(updates, LAMBDA pu : ConsentClosure(pu).some)
    IN  [i \in 1 .. Len(kept) |-> ConsentClosure(kept[i]).value]
PreferenceFilterMap(updates) ==
    LET kept == SelectSeq(updates, LAMBDA pu : PreferenceClosure(pu).some)
    IN  [i \in 1 .. Len(kept) |-> PreferenceClosure(kept[i]).value]

IsPreferenceEvent(event) ==
    event.ev \in {"OutgoingPreferenceUpdates", "IncomingPreferenceUpdate"}

\* lines 69-76, the conversation that NewGroup carries
GroupFilterView(event) ==
    IF GroupFilter(event)
    THEN Some([ev |-> "MlsGroup", group |-> event.group, updates |-> <<>>])
    ELSE None

\* Mutant: the two preference arms of lines 83-84 are missing.
SyncFilterOnlySyncMessage(event) ==
    IF event.ev = "SyncMessage" THEN Some(event) ELSE None

\* lines 78-87
SyncFilter(event) ==
    IF event.ev = "SyncMessage" \/ IsPreferenceEvent(event)
    THEN Some(event) ELSE None

\* Mutant: an event whose filtered list is empty gives no item.
ConsentFilterSkipsEmpty(event) ==
    IF IsPreferenceEvent(event) /\ ConsentFilterMap(event.updates) # <<>>
    THEN Some([ev |-> "ConsentRecords", group |-> 0,
               updates |-> ConsentFilterMap(event.updates)])
    ELSE None

\* lines 89-115
ConsentFilter(event) ==
    IF IsPreferenceEvent(event)
    THEN Some([ev |-> "ConsentRecords", group |-> 0,
               updates |-> ConsentFilterMap(event.updates)])
    ELSE None

\* lines 117-143
PreferenceFilter(event) ==
    IF IsPreferenceEvent(event)
    THEN Some([ev |-> "PreferenceUpdates", group |-> 0,
               updates |-> PreferenceFilterMap(event.updates)])
    ELSE None

StreamKinds == {"group", "sync", "consent", "preference"}
FilterOf(kind, event) ==
    CASE kind = "group" -> GroupFilterView(event)
      [] kind = "sync" -> SyncFilter(event)
      [] kind = "consent" -> ConsentFilter(event)
      [] OTHER -> PreferenceFilter(event)

\* Mutant: the lag notification is handed on as an error.
OptifyKeepsLag(item) ==
    [some |-> TRUE, ok |-> item.ev # "Lagged", value |-> item]

\* xmtp_common::optify!(event, "..lag"): Ok(event) is Some(event), the lag
\* error is logged and is None
Optify(item) ==
    [some |-> item.ev # "Lagged", ok |-> TRUE, value |-> item]

\* The closure of filter_map, lines 162-166, 172-176, 182-186 and 350-354:
\* optify!(event, ..).and_then(filter).map(Result::Ok)
ViewClosure(kind, item) ==
    IF ~Optify(item).some THEN None
    ELSE IF ~Optify(item).ok
    THEN Some([ok |-> FALSE, ev |-> "Lagged", group |-> 0, updates |-> <<>>])
    ELSE IF ~FilterOf(kind, Optify(item).value).some THEN None
    ELSE Some([ok |-> TRUE,
               ev |-> FilterOf(kind, Optify(item).value).value.ev,
               group |-> FilterOf(kind, Optify(item).value).value.group,
               updates |-> FilterOf(kind, Optify(item).value).value.updates])

\* A component of the client sends an event on the bus.
BusPublish(event) ==
    /\ stream_kind \in StreamKinds
    /\ published < MaxPublished
    /\ published' = published + 1
    /\ event_queue' = BusSend(event_queue, event)
    /\ lagged' = lagged \cup LaggedGroups(event_queue)
    /\ UNCHANGED <<selectVars, handleVars, stream_kind, bus_in, bus_out,
                   late_groups, storeVars, conversation_type, subscribed,
                   subscription, convo_out, muxVars, callVars, taskVars>>

\* The view takes the next item of its BroadcastStream and yields what the
\* closure keeps.
BusStreamNext ==
    /\ stream_kind \in StreamKinds
    /\ event_queue # <<>>
    /\ event_queue' = Tail(event_queue)
    /\ bus_in' = Append(bus_in, Head(event_queue))
    /\ bus_out' = IF ViewClosure(stream_kind, Head(event_queue)).some
                  THEN Append(bus_out,
                              ViewClosure(stream_kind, Head(event_queue)).value)
                  ELSE bus_out
    /\ UNCHANGED <<selectVars, handleVars, stream_kind, published, traceVars,
                   storeVars, conversation_type, subscribed, subscription,
                   convo_out, muxVars, callVars, taskVars>>

\* ------------------------------------------------------------ environment
Known(g) == WelcomeIdOf(g) \in invited \/ \E r \in stored : r.id = g

\* Another installation creates conversation g and adds this installation:
\* the server stores the welcome and pushes it on open subscriptions.
RemoteInvite(g) ==
    /\ ~Known(g)
    /\ invited' = invited \cup {WelcomeIdOf(g)}
    /\ subscription' = IF subscribed
                       THEN Append(subscription, WelcomeItem(WelcomeIdOf(g)))
                       ELSE subscription
    /\ late_groups' = IF wait = "returned" THEN late_groups \cup {g}
                      ELSE late_groups
    /\ UNCHANGED <<selectVars, handleVars, busVars, lagged, stored, pos, sent,
                   redelivered, conversation_type, subscribed, event_queue,
                   convo_out, muxVars, callVars, taskVars>>

\* This client creates conversation g: the row is stored and
\* LocalEvents::NewGroup is sent on the bus.
CreateGroupLocal(g) ==
    /\ ~Known(g)
    /\ stored' = stored \cup {StoredGroup(g, NoWelcome)}
    /\ event_queue' = IF subscribed
                      THEN BusSend(event_queue, NewGroupEvent(g))
                      ELSE event_queue
    /\ lagged' = IF subscribed THEN lagged \cup LaggedGroups(event_queue)
                 ELSE lagged
    /\ late_groups' = IF wait = "returned" THEN late_groups \cup {g}
                      ELSE late_groups
    /\ UNCHANGED <<selectVars, handleVars, busVars, pos, sent, invited,
                   redelivered, conversation_type, subscribed, subscription,
                   convo_out, muxVars, callVars, taskVars>>

\* The transport delivers a welcome once more (retry, reconnection).
WelcomeRedeliver(w) ==
    /\ subscribed
    /\ w \in invited
    /\ redelivered < MaxRedeliver
    /\ redelivered' = redelivered + 1
    /\ subscription' = Append(subscription, WelcomeItem(w))
    /\ UNCHANGED <<selectVars, handleVars, busVars, traceVars, stored, pos,
                   sent, invited, conversation_type, subscribed, event_queue,
                   convo_out, muxVars, callVars, taskVars>>

\* The welcome subscription delivers an error item in place of a welcome:
\* the Err the closure of line 383 meets in `welcome?`.
TransportErrorItem ==
    [tag |-> "Welcome", ok |-> FALSE, w |-> NoWelcome, group |-> 0]
ApiErrors(items) ==
    Len(SelectSeq(items, LAMBDA i : ~i.ok /\ i.err.variant = "Api"))
TransportErrors ==
    Len(SelectSeq(subscription, LAMBDA i : ~i.ok)) + ApiErrors(convo_out)
        + Len(SelectSeq(yielded, LAMBDA i : i.kind = "Api"))
WelcomeTransportError ==
    /\ subscribed
    /\ TransportErrors < MaxTransportErrors
    /\ subscription' = Append(subscription, TransportErrorItem)
    /\ UNCHANGED <<selectVars, handleVars, busVars, traceVars, stored, pos,
                   sent, invited, redelivered, conversation_type, subscribed,
                   event_queue, convo_out, muxVars, callVars, taskVars>>

\* The network sends one more message in a conversation this installation
\* belongs to.
TotalSent == sent[1] + sent[2] + sent[3] + sent[4]
SendMessage(g) ==
    /\ Known(g)
    /\ TotalSent < MaxMsgs
    /\ sent' = [sent EXCEPT ![g] = @ + 1]
    /\ after_join' = IF task = "joined" /\ after_join < MaxAfterJoin
                     THEN after_join + 1 ELSE after_join
    /\ UNCHANGED <<selectVars, handleVars, busVars, traceVars, stored, pos,
                   invited, redelivered, convoVars, muxVars, callVars, task,
                   callback_log>>

\* ----------------------------------------------------- per-group fan-in
Msg(g, i) == [kind |-> "msg", group |-> g, seq |-> i]
ErrItem(variant) == [kind |-> variant, group |-> 0, seq |-> 0]

\* lines 205-221 and 490-493
MessagesStreamInfo(g, cursor) ==
    [convo_created_at_ns |-> CreatedAt(g), cursor |-> cursor]

\* subscriptions::stream_messages(client, Arc::new(snapshot)): a group listed
\* with cursor 0 resumes from the position the store has recorded, a group
\* listed with cursor c > 0 is replayed from message c.
StreamMessages(info, store_pos) ==
    [open |-> TRUE,
     ended |-> FALSE,
     next |-> [g \in DOMAIN info |->
                IF info[g].cursor = 0 THEN store_pos[g]
                ELSE info[g].cursor - 1],
     ready |-> <<>>]

\* The active fan-in receives and processes the next message of group g:
\* the message is ready for the next poll and the store records it.
FanInReceive(g) ==
    /\ messages_stream.open
    /\ task \in {"running", "ending"}
    /\ g \in DOMAIN messages_stream.next
    /\ messages_stream.next[g] < sent[g]
    /\ LET i == messages_stream.next[g] + 1
       IN  /\ messages_stream' =
                [messages_stream EXCEPT !.next[g] = i,
                                        !.ready = Append(@, Msg(g, i))]
           /\ pos' = [pos EXCEPT ![g] = Max(@, i)]
    /\ UNCHANGED <<selectVars, handleVars, busVars, traceVars, stored, sent,
                   invited, redelivered, convoVars, pc, group_id_to_info,
                   new_messages_stream, extra_messages, yielded, wake,
                   callVars, taskVars>>

\* subscribe_welcome_messages(installation_key, Some(id_cursor)): the
\* welcomes the server holds after id_cursor, oldest first.
RECURSIVE WelcomesAfter(_, _)
WelcomesAfter(inv, id_cursor) ==
    LET later == {w \in inv : w > id_cursor}
    IN  IF later = {} THEN <<>>
        ELSE LET w == CHOOSE x \in later : \A y \in later : x <= y
             IN  <<WelcomeItem(w)>> \o WelcomesAfter(inv, w)

\* ----------------------------------------------------- stream_all_messages
\* The spawned task polls the stream in `while let Some(message) =
\* stream.next().await`; nothing else polls it.
\* Mutant: the stream keeps being polled after the task has ended.
TaskPollsForever == pc # "off"

TaskPolls == task \in {"running", "ending"}

\* Mutant: a batch of items reaches the callback last item first.
YieldReversed(items) ==
    /\ yielded' = yielded \o [i \in 1 .. Len(items) |->
                                items[Len(items) + 1 - i]]
    /\ callback_log' = callback_log + Len(items)

\* Each item the stream yields is handed to the callback, lines 537-539.
Yield(items) ==
    /\ yielded' = yielded \o items
    /\ callback_log' = callback_log + Len(items)

\* Mutant: the snapshot is loaded without the conversation_type argument.
InitialSnapshotUnfiltered(store, ct) ==
    [g \in FindGroups(store, "None") |-> MessagesStreamInfo(g, 0)]

\* lines 433-445, after sync_welcomes: find_groups(..) collected into the
\* map through From<StoredGroup>, every cursor 0
InitialSnapshot(store, ct) ==
    [g \in FindGroups(store, ct) |-> MessagesStreamInfo(g, 0)]

\* First poll of the stream, lines 448-459: the fan-in over the snapshot,
\* then the conversation stream (welcome subscription from cursor 0 and a
\* fresh bus receiver).
FirstPoll ==
    /\ pc = "created" /\ TaskPolls
    /\ messages_stream' = StreamMessages(group_id_to_info, pos)
    /\ subscribed' = TRUE
    /\ subscription' = WelcomesAfter(invited, 0)
    /\ event_queue' = <<>>
    /\ pc' = "loop"
    /\ UNCHANGED <<selectVars, handleVars, busVars, traceVars, storeVars,
                   conversation_type, convo_out, group_id_to_info,
                   new_messages_stream, extra_messages, yielded, wake,
                   callVars, taskVars>>

\* select! branch 1, lines 468-472
DrainExtra ==
    /\ pc = "loop" /\ TaskPolls
    /\ extra_messages # <<>>
    /\ Yield(extra_messages)
    /\ extra_messages' = <<>>
    /\ wake' = [branch |-> "extra", group |-> 0]
    /\ UNCHANGED <<selectVars, handleVars, busVars, traceVars, storeVars,
                   convoVars, pc, group_id_to_info, messages_stream,
                   new_messages_stream, callVars, task, after_join>>

\* select! branch 2, lines 473-477
YieldMessage ==
    /\ pc = "loop" /\ TaskPolls
    /\ extra_messages = <<>>
    /\ messages_stream.ready # <<>>
    /\ Yield(<<Head(messages_stream.ready)>>)
    /\ messages_stream' = [messages_stream EXCEPT !.ready = Tail(@)]
    /\ wake' = [branch |-> "message",
                group |-> Head(messages_stream.ready).group]
    /\ UNCHANGED <<selectVars, handleVars, busVars, traceVars, storeVars,
                   convoVars, pc, group_id_to_info, new_messages_stream,
                   extra_messages, callVars, task, after_join>>

\* The active fan-in of conversations that never fall silent: whenever it
\* has nothing ready, the next message of one of its groups can arrive.
\* The position of the message in its conversation is not tracked.
FanInProduces(g) ==
    /\ pc \in {"loop", "rebuilding"} /\ TaskPolls
    /\ messages_stream.open
    /\ g \in DOMAIN messages_stream.next
    /\ messages_stream.ready = <<>>
    /\ messages_stream' = [messages_stream EXCEPT !.ready = <<Msg(g, 0)>>]
    /\ UNCHANGED <<selectVars, handleVars, busVars, traceVars, storeVars,
                   convoVars, pc, group_id_to_info, new_messages_stream,
                   extra_messages, yielded, wake, callVars, taskVars>>

\* select! branch 2, lines 473-477, in a run without end: the message is
\* handed to the consumer and no record of it is kept.
DeliverMessage ==
    /\ pc = "loop" /\ TaskPolls
    /\ extra_messages = <<>>
    /\ messages_stream.ready # <<>>
    /\ messages_stream' = [messages_stream EXCEPT !.ready = Tail(@)]
    /\ wake' = [branch |-> "message",
                group |-> Head(messages_stream.ready).group]
    /\ UNCHANGED <<selectVars, handleVars, busVars, traceVars, storeVars,
                   convoVars, pc, group_id_to_info, new_messages_stream,
                   extra_messages, yielded, callVars, taskVars>>

\* Mutant: branch 3 is polled although branch 2 has an item (no `biased;`).
FanInPendingOrNot(stream) == TRUE

\* lines 466 and 473: with `biased;` branch 3 is polled in a select! only
\* after messages_stream.next() returned Pending
FanInPending(stream) == stream.ready = <<>>

\* Mutant: the conversation stream is polled whatever extra_messages holds.
ConvoBranchUnbiased(src) ==
    /\ pc = "loop" /\ TaskPolls
    /\ messages_stream.ready = <<>>
    /\ SourceReady(src)

\* select! branch 3 is reached when branch 1 is disabled and the fan-in has
\* nothing ready, lines 478-518.
ConvoBranch(src) ==
    /\ pc = "loop" /\ TaskPolls
    /\ extra_messages = <<>>
    /\ FanInPending(messages_stream)
    /\ SourceReady(src)

\* Mutant: the contains_key test of line 482 is missing.
AlreadyStreamingNever(info, group_id) == FALSE

\* line 482: group_id_to_info.contains_key(&new_group.group_id)
AlreadyStreaming(info, group_id) == group_id \in DOMAIN info

\* Mutant: the loop of lines 485-487 is missing.
InsertNewGroupNoReset(info, g) ==
    [x \in DOMAIN info \cup {g} |->
        IF x = g THEN MessagesStreamInfo(g, 1) ELSE info[x]]

\* lines 485-494: every cursor to 0, the new group inserted with cursor 1
InsertNewGroup(info, g) ==
    [x \in DOMAIN info \cup {g} |->
        IF x = g THEN MessagesStreamInfo(g, 1)
        ELSE [info[x] EXCEPT !.cursor = 0]]

\* The conversation stream had an item that its filter dropped: the
\* filter_map keeps polling and the select! stays pending.
ConvoFilteredOut(src, f) ==
    /\ ConvoBranch(src)
    /\ ~ConvoFiltered(src, f).emit
    /\ ConsumeSource(src)
    /\ stored' = ConvoResolved(src, f).store
    /\ wake' = [branch |-> "convo_filtered",
                group |-> ConvoResolved(src, f).ret.group]
    /\ UNCHANGED <<selectVars, handleVars, busVars, traceVars, pos, sent,
                   invited, redelivered, conversation_type, subscribed,
                   convo_out, pc, group_id_to_info, messages_stream,
                   new_messages_stream, extra_messages, yielded, callVars,
                   taskVars>>

\* Mutant: the Err of the conversation stream is yielded with `?`, which
\* ends the stream.
ConvoErrorEndsStream(src, f) ==
    /\ ConvoBranch(src)
    /\ ConvoFiltered(src, f).emit
    /\ ~ConvoFiltered(src, f).item.ok
    /\ ConsumeSource(src)
    /\ stored' = ConvoResolved(src, f).store
    /\ Yield(<<ErrItem(ConvoFiltered(src, f).item.err.variant)>>)
    /\ wake' = [branch |-> "convo_err", group |-> 0]
    /\ pc' = "ended"
    /\ UNCHANGED <<selectVars, handleVars, busVars, traceVars, pos, sent,
                   invited, redelivered, conversation_type, subscribed,
                   convo_out, group_id_to_info, messages_stream,
                   new_messages_stream, extra_messages, callVars, task,
                   after_join>>

\* lines 514-516
ConvoError(src, f) ==
    /\ ConvoBranch(src)
    /\ ConvoFiltered(src, f).emit
    /\ ~ConvoFiltered(src, f).item.ok
    /\ ConsumeSource(src)
    /\ stored' = ConvoResolved(src, f).store
    /\ Yield(<<ErrItem(ConvoFiltered(src, f).item.err.variant)>>)
    /\ wake' = [branch |-> "convo_err", group |-> 0]
    /\ UNCHANGED <<selectVars, handleVars, busVars, traceVars, pos, sent,
                   invited, redelivered, conversation_type, subscribed,
                   convo_out, pc, group_id_to_info, messages_stream,
                   new_messages_stream, extra_messages, callVars, task,
                   after_join>>

\* lines 480-484: a conversation that is already a key of the map
ConvoDuplicate(src, f) ==
    /\ ConvoBranch(src)
    /\ ConvoFiltered(src, f).emit
    /\ ConvoFiltered(src, f).item.ok
    /\ AlreadyStreaming(group_id_to_info, ConvoFiltered(src, f).item.group)
    /\ ConsumeSource(src)
    /\ stored' = ConvoResolved(src, f).store
    /\ wake' = [branch |-> "convo_ok",
                group |-> ConvoFiltered(src, f).item.group]
    /\ UNCHANGED <<selectVars, handleVars, busVars, traceVars, pos, sent,
                   invited, redelivered, conversation_type, subscribed,
                   convo_out, pc, group_id_to_info, messages_stream,
                   new_messages_stream, extra_messages, yielded, callVars,
                   taskVars>>

\* lines 480-498: a new conversation; the map is updated and the rebuild of
\* the fan-in is awaited
ConvoNewGroup(src, f) ==
    /\ ConvoBranch(src)
    /\ ConvoFiltered(src, f).emit
    /\ ConvoFiltered(src, f).item.ok
    /\ ~AlreadyStreaming(group_id_to_info, ConvoFiltered(src, f).item.group)
    /\ ConsumeSource(src)
    /\ stored' = ConvoResolved(src, f).store
    /\ group_id_to_info' =
            InsertNewGroup(group_id_to_info, ConvoFiltered(src, f).item.group)
    /\ pc' = "rebuilding"
    /\ wake' = [branch |-> "convo_ok",
                group |-> ConvoFiltered(src, f).item.group]
    /\ UNCHANGED <<selectVars, handleVars, busVars, traceVars, pos, sent,
                   invited, redelivered, conversation_type, subscribed,
                   convo_out, messages_stream, new_messages_stream,
                   extra_messages, yielded, callVars, taskVars>>

\* lines 495-499: the transport has opened the fan-in over the new snapshot
StreamMessagesOk ==
    /\ pc = "rebuilding" /\ TaskPolls
    /\ new_messages_stream' = StreamMessages(group_id_to_info, pos)
    /\ pc' = "switching"
    /\ UNCHANGED <<selectVars, handleVars, busVars, traceVars, storeVars,
                   convoVars, group_id_to_info, messages_stream,
                   extra_messages, yielded, wake, callVars, taskVars>>

\* Mutant: the failed rebuild drains the old fan-in and drops it.
StreamMessagesErrDropsOld ==
    /\ pc = "rebuilding" /\ TaskPolls
    /\ Yield(<<ErrItem("FailedToStartNewMessagesStream")>>)
    /\ extra_messages' = extra_messages \o messages_stream.ready
    /\ messages_stream' = NoStream
    /\ pc' = "loop"
    /\ wake' = [branch |-> "rebuild_err", group |-> 0]
    /\ UNCHANGED <<selectVars, handleVars, busVars, traceVars, storeVars,
                   convoVars, group_id_to_info, new_messages_stream, callVars,
                   task, after_join>>

\* lines 500-503
StreamMessagesErr ==
    /\ pc = "rebuilding" /\ TaskPolls
    /\ Yield(<<ErrItem("FailedToStartNewMessagesStream")>>)
    /\ pc' = "loop"
    /\ wake' = [branch |-> "rebuild_err", group |-> 0]
    /\ UNCHANGED <<selectVars, handleVars, busVars, traceVars, storeVars,
                   convoVars, group_id_to_info, messages_stream,
                   new_messages_stream, extra_messages, callVars, task,
                   after_join>>

\* Mutant: `if let` instead of `while let`, one ready message is taken.
DrainReadyOnce(stream) ==
    IF stream.ready = <<>> THEN <<>> ELSE <<Head(stream.ready)>>

\* lines 508-510: next().now_or_never() until the old fan-in is pending
DrainReady(stream) == stream.ready

\* lines 506-512: the await returns; drain the old fan-in and replace it
SwitchStreams ==
    /\ pc = "switching" /\ TaskPolls
    /\ extra_messages' = extra_messages \o DrainReady(messages_stream)
    /\ messages_stream' = new_messages_stream
    /\ new_messages_stream' = NoStream
    /\ pc' = "loop"
    /\ wake' = [branch |-> "switch", group |-> 0]
    /\ UNCHANGED <<selectVars, handleVars, busVars, traceVars, storeVars,
                   convoVars, group_id_to_info, yielded, callVars, taskVars>>

\* -------------------------------------------------------- the task handle
\* abort_handle().end(): the task is cancelled at its next suspension point
Abort ==
    /\ task = "running"
    /\ pc # "off"
    /\ task' = "ending"
    /\ UNCHANGED <<selectVars, handleVars, busVars, traceVars, storeVars,
                   convoVars, muxVars, callVars, callback_log, after_join>>

\* The cancelled task reaches a suspension point and is dropped together
\* with the stream it owns.
TaskEnds ==
    /\ task = "ending"
    /\ task' = "finished"
    /\ UNCHANGED <<selectVars, handleVars, busVars, traceVars, storeVars,
                   convoVars, muxVars, callVars, callback_log, after_join>>

\* handle.join() completes with the output of the task
JoinResult(t) ==
    IF t = "failed" THEN "Err" ELSE IF t = "returned" THEN "Ok"
    ELSE "Cancelled"
Join ==
    /\ task \in {"finished", "failed", "returned"}
    /\ task' = "joined"
    /\ join_result' = JoinResult(task)
    /\ UNCHANGED <<selectVars, ready_tx, start, wait, wait_calls, busVars,
                   traceVars, storeVars, convoVars, muxVars, callVars,
                   callback_log, after_join>>

\* ------------------------------- stream_all_messages_with_callback, startup
\* client.sync_welcomes(&provider): every welcome the server holds and the
\* store does not know is materialized.
SyncWelcomes(store, inv) ==
    store \cup {StoredGroup(GroupOfWelcome(w), w) :
                    w \in {x \in inv : ~(\E r \in store : r.welcome_id = x)}}

\* Mutant: the snapshot is loaded before the welcome sync.
ConstructOkSnapshotFirst ==
    /\ task = "spawned"
    /\ stored' = SyncWelcomes(stored, invited)
    /\ group_id_to_info' = InitialSnapshot(stored, conversation_type)
    /\ pc' = "created"
    /\ task' = "constructed"
    /\ UNCHANGED <<selectVars, handleVars, busVars, traceVars, pos, sent,
                   invited, redelivered, convoVars, messages_stream,
                   new_messages_stream, extra_messages, yielded, wake,
                   callVars, callback_log, after_join>>

\* line 534 with lines 433-445 and 523: the constructor returns the stream
\* over the snapshot taken after the welcome sync; the stream's body has not
\* run yet.
ConstructOk ==
    /\ task = "spawned"
    /\ stored' = SyncWelcomes(stored, invited)
    /\ group_id_to_info' =
            InitialSnapshot(SyncWelcomes(stored, invited), conversation_type)
    /\ pc' = "created"
    /\ task' = "constructed"
    /\ UNCHANGED <<selectVars, handleVars, busVars, traceVars, pos, sent,
                   invited, redelivered, convoVars, messages_stream,
                   new_messages_stream, extra_messages, yielded, wake,
                   callVars, callback_log, after_join>>

ConstructSteps == {"sync_welcomes", "find_groups"}

\* Mutant: the sender outlives the failed task.
ConstructErrKeepsSender(step) ==
    /\ task = "spawned"
    /\ stored' = IF step = "find_groups" THEN SyncWelcomes(stored, invited)
                 ELSE stored
    /\ task' = "failed"
    /\ wake' = [branch |-> step, group |-> 0]
    /\ UNCHANGED <<selectVars, handleVars, busVars, traceVars, pos, sent,
                   invited, redelivered, convoVars, pc, group_id_to_info,
                   messages_stream, new_messages_stream, extra_messages,
                   yielded, callVars, callback_log, after_join>>

\* line 534, `?` on an error of line 435 or of line 439: the task returns
\* the error and everything it owns is dropped, `tx` included.
ConstructErr(step) ==
    /\ task = "spawned"
    /\ stored' = IF step = "find_groups" THEN SyncWelcomes(stored, invited)
                 ELSE stored
    /\ task' = "failed"
    /\ ready_tx' = "dropped"
    /\ wake' = [branch |-> step, group |-> 0]
    /\ UNCHANGED <<selectVars, start, wait, wait_calls, join_result, busVars,
                   traceVars, pos, sent, invited, redelivered, convoVars, pc,
                   group_id_to_info, messages_stream, new_messages_stream,
                   extra_messages, yielded, callVars, callback_log,
                   after_join>>

\* Mutant: the task goes on to the loop without sending the signal.
SendReadyNever ==
    /\ task = "constructed"
    /\ task' = "running"
    /\ UNCHANGED <<selectVars, handleVars, busVars, traceVars, storeVars,
                   convoVars, muxVars, callVars, callback_log, after_join>>

\* line 536: let _ = tx.send(())
SendReady ==
    /\ task = "constructed"
    /\ ready_tx' = "sent"
    /\ task' = "running"
    /\ UNCHANGED <<selectVars, start, wait, wait_calls, join_result, busVars,
                   traceVars, storeVars, convoVars, muxVars, callVars,
                   callback_log, after_join>>

InitialSubscriptions == {"messages_stream", "convo_stream"}

\* First poll of the stream, lines 448-455, when stream_messages (line 452)
\* or stream_conversations (line 455) returns an error: inside stream! the
\* `?` yields the error as an item and the stream is over.
FirstPollErr(which) ==
    /\ pc = "created" /\ TaskPolls
    /\ messages_stream' = IF which = "convo_stream"
                          THEN StreamMessages(group_id_to_info, pos)
                          ELSE messages_stream
    /\ Yield(<<ErrItem("Client")>>)
    /\ pc' = "ended"
    /\ wake' = [branch |-> which, group |-> 0]
    /\ UNCHANGED <<selectVars, handleVars, busVars, traceVars, storeVars,
                   convoVars, group_id_to_info, new_messages_stream,
                   extra_messages, callVars, task, after_join>>

\* lines 537-541: stream.next() returned None, the task returns Ok(())
TaskReturns ==
    /\ pc = "ended" /\ task = "running"
    /\ task' = "returned"
    /\ UNCHANGED <<selectVars, handleVars, busVars, traceVars, storeVars,
                   convoVars, muxVars, callVars, callback_log, after_join>>

\* The handle is ended while the task awaits the constructor: the task is
\* dropped there, with `tx`.
AbortEarly ==
    /\ task = "spawned"
    /\ task' = "finished"
    /\ ready_tx' = "dropped"
    /\ UNCHANGED <<selectVars, start, wait, wait_calls, join_result, busVars,
                   traceVars, storeVars, convoVars, muxVars, callVars,
                   callback_log, after_join>>

\* The transport closes the active fan-in: its next() returns None from
\* then on and the `Some(message)` branch of the select! is disabled.
FanInCloses ==
    /\ messages_stream.open /\ TaskPolls
    /\ messages_stream.ready = <<>>
    /\ messages_stream' = [messages_stream EXCEPT !.open = FALSE,
                                                  !.ended = TRUE]
    /\ UNCHANGED <<selectVars, handleVars, busVars, traceVars, storeVars,
                   convoVars, pc, group_id_to_info, new_messages_stream,
                   extra_messages, yielded, wake, callVars, taskVars>>

\* Both sides of the conversation stream end: the transport closes the
\* welcome subscription and the last sender of the bus is gone.  The
\* stream's next() returns None from then on and the `Some(new_group)`
\* branch of the select! is disabled.
ConvoStreamCloses ==
    /\ pc = "loop" /\ TaskPolls
    /\ subscribed /\ ~convo_ended
    /\ subscription = <<>> /\ event_queue = <<>>
    /\ convo_ended' = TRUE
    /\ UNCHANGED <<poll_next, handleVars, busVars, traceVars, storeVars,
                   convoVars, muxVars, callVars, taskVars>>

\* lines 465-519: the select! has no `else` branch.  With extra_messages
\* empty the first branch is disabled by its precondition; next() of an
\* ended fan-in and of an ended conversation stream is None, which fails
\* the `Some(..)` patterns and disables the other two; a select! whose
\* branches are all disabled panics, in the task that polls the stream.
SelectAllDisabled ==
    /\ pc = "loop" /\ TaskPolls
    /\ extra_messages = <<>>
    /\ messages_stream.ended /\ convo_ended
    /\ pc' = "panicked"
    /\ task' = "panicked"
    /\ wake' = [branch |-> "none", group |-> 0]
    /\ UNCHANGED <<selectVars, handleVars, busVars, traceVars, storeVars,
                   convoVars, group_id_to_info, messages_stream,
                   new_messages_stream, extra_messages, yielded, callVars,
                   callback_log, after_join>>

\* StreamHandle::wait_for_ready, lines 192-196: start.take() and, when it
\* held the receiver, the await on it.
WaitForReadyCall ==
    /\ start \in {"some", "taken"}
    /\ wait # "waiting"
    /\ wait_calls < MaxWaitCalls
    /\ wait_calls' = wait_calls + 1
    /\ start' = "taken"
    /\ wait' = IF start = "some" THEN "waiting" ELSE "returned"
    /\ UNCHANGED <<selectVars, ready_tx, join_result, busVars, traceVars,
                   storeVars, convoVars, muxVars, callVars, taskVars>>

\* `let _ = s.await`: the receiver resolves when the signal was sent and
\* also when the sender was dropped.
WaitForReadyReturns ==
    /\ wait = "waiting"
    /\ ready_tx \in {"sent", "dropped"}
    /\ wait' = "returned"
    /\ UNCHANGED <<selectVars, ready_tx, start, wait_calls, join_result,
                   busVars, traceVars, storeVars, convoVars, muxVars,
                   callVars, taskVars>>

\* ------------------------------------------------------- idle components
IdleStore ==
    /\ stored = {}
    /\ pos = [g \in Groups |-> 0]
    /\ sent = [g \in Groups |-> 0]
    /\ invited = {}
    /\ redelivered = 0

IdleConvo ==
    /\ conversation_type = "None"
    /\ subscribed = FALSE
    /\ subscription = <<>>
    /\ event_queue = <<>>
    /\ convo_out = <<>>

IdleMux ==
    /\ pc = "off"
    /\ group_id_to_info = <<>>
    /\ messages_stream = NoStream
    /\ new_messages_stream = NoStream
    /\ extra_messages = <<>>
    /\ yielded = <<>>
    /\ wake = NoWake

IdleCalls == calls = [c \in Callers |-> IdleCall]

IdleTask ==
    /\ task = "off"
    /\ callback_log = 0
    /\ after_join = 0

IdleHandle ==
    /\ ready_tx = "none"
    /\ start = "none"
    /\ wait = "idle"
    /\ wait_calls = 0
    /\ join_result = "none"

IdleBus ==
    /\ stream_kind = "none"
    /\ bus_in = <<>>
    /\ bus_out = <<>>
    /\ published = 0

IdleTrace ==
    /\ lagged = {}
    /\ late_groups = {}

IdleSelect == poll_next = "event_queue" /\ convo_ended = FALSE

\* --------------------------------- specification of the welcome processor
\* Two welcomes are on the server; two streams of the same client hand them
\* to process_streamed_welcome while a welcome sync runs.
WelcomesHanded == {WelcomeIdOf(1), WelcomeIdOf(2)}

WelcomeInit ==
    /\ stored = {}
    /\ pos = [g \in Groups |-> 0]
    /\ sent = [g \in Groups |-> 0]
    /\ invited = WelcomesHanded
    /\ redelivered = 0
    /\ IdleConvo /\ IdleMux /\ IdleCalls /\ IdleTask
    /\ IdleHandle /\ IdleBus /\ IdleTrace /\ IdleSelect

WelcomeNext ==
    \/ \E c \in Callers, w \in WelcomesHanded, d \in BOOLEAN :
            WelcomeCall(c, w, d)
    \/ \E c \in Callers, e \in BOOLEAN, r \in BOOLEAN : WelcomeCreate(c, e, r)
    \/ \E c \in Callers, d \in BOOLEAN : WelcomeLookup(c, d)
    \/ \E w \in WelcomesHanded : SyncWelcome(w)

WelcomeSpec == WelcomeInit /\ [][WelcomeNext]_vars

RowsOf(w) == {r \in stored : r.welcome_id = w}
Returned(c) == calls[c].pc = "done"
Decoded(c) == calls[c].ret.err.text # "DecodeError"

\* C5 as stated: once a welcome with id W has been handed to
\* process_streamed_welcome and the call has returned, storage holds exactly
\* one conversation with welcome id W.
C5_ExactlyOneConversation ==
    \A c \in Callers :
        (Returned(c) /\ Decoded(c)) => Cardinality(RowsOf(calls[c].w)) = 1

\* C5 amended: storage never holds more than one conversation per welcome
\* id, and every call that returned Ok returned the group_id of the single
\* conversation stored under its welcome id.
C5_AtMostOneAndOkReturnsIt ==
    /\ \A w \in WelcomeIds : Cardinality(RowsOf(w)) <= 1
    /\ \A c \in Callers :
            (Returned(c) /\ calls[c].ret.ok) =>
                /\ Cardinality(RowsOf(calls[c].w)) = 1
                /\ \A r \in RowsOf(calls[c].w) : r.id = calls[c].ret.group

\* Both callers were handed the same welcome; one created the conversation
\* and the other recovered it through the lookup.
C5_Witness ==
    /\ \A c \in Callers : Returned(c) /\ calls[c].ret.ok
    /\ calls["convo_stream"].w = calls["all_messages_stream"].w
    /\ \E c \in Callers : calls[c].lookup.status = "found"
    /\ \E c \in Callers : calls[c].creation.ok

\* C6: a call that got past decoding returns the created conversation when
\* the creation succeeded (storage not queried), the conversation found by
\* welcome id when the creation failed, the creation error when nothing
\* was found, and the storage error when the lookup failed.
C6_FourOutcomes ==
    \A c \in Callers :
        (Returned(c) /\ Decoded(c)) =>
            LET k == calls[c] IN
            /\ k.creation.ok =>
                /\ k.lookup.status = "not_queried"
                /\ k.ret = Ok(k.creation.group)
                /\ k.creation.group = GroupOfWelcome(k.w)
            /\ ~k.creation.ok =>
                /\ k.lookup.status \in {"found", "none", "error"}
                /\ k.lookup.status = "found" => k.ret = Ok(k.lookup.group)
                /\ k.lookup.status = "none" =>
                        k.ret = Err("Generic", k.creation.err)
                /\ k.lookup.status = "error" =>
                        k.ret = Err("Generic", "StorageError")

\* All four outcomes have been seen: with two callers, one in the lookup
\* error case and the other in the not-found case.
C6_Witness ==
    /\ \A c \in Callers : Returned(c) /\ Decoded(c) /\ ~calls[c].creation.ok
    /\ calls["convo_stream"].lookup.status = "error"
    /\ calls["all_messages_stream"].lookup.status = "none"
    /\ calls["all_messages_stream"].ret.err.text = "EngineError"

\* ------------------------------- specification of the conversation stream
\* A fresh client: stream_conversations(conversation_type) has returned its
\* stream, nothing is stored and no welcome exists yet.
ConvoInit ==
    /\ IdleStore
    /\ conversation_type \in Filters
    /\ subscribed = TRUE
    /\ subscription = <<>>
    /\ event_queue = <<>>
    /\ convo_out = <<>>
    /\ IdleMux /\ IdleCalls /\ IdleTask
    /\ IdleHandle /\ IdleBus /\ IdleTrace /\ IdleSelect

ConvoStreamNext ==
    \/ \E g \in NewGroups : RemoteInvite(g)
    \/ \E g \in NewGroups : CreateGroupLocal(g)
    \/ \E w \in WelcomeIds : WelcomeRedeliver(w)
    \/ \E w \in WelcomeIds : SyncWelcome(w)
    \/ \E src \in ConvoSources, f \in Faults : ConvoNext(src, f)

ConvoSpec == ConvoInit /\ [][ConvoStreamNext]_vars

Matches(g) == conversation_type = "None" \/ ConvType(g) = conversation_type
OkItems(out, g) == {i \in 1 .. Len(out) : out[i].ok /\ out[i].group = g}

\* C7: every Ok item of stream_conversations(Some(T)) is a conversation of
\* type T, a conversation of another type produces no item, and a resolved
\* conversation that passes the filter (any conversation with None) is the
\* item just yielded.
C7_OnlyRequestedType ==
    /\ \A i \in 1 .. Len(convo_out) :
            convo_out[i].ok => Matches(convo_out[i].group)
    /\ (wake.branch = "resolved" /\ Matches(wake.group)) =>
            /\ convo_out # <<>>
            /\ convo_out[Len(convo_out)] = Ok(wake.group)

\* A Dm was resolved under Some(Group) and produced no item, after a Group
\* had been yielded.
C7_Witness ==
    /\ conversation_type = "Group"
    /\ wake.branch = "resolved" /\ ConvType(wake.group) = "Dm"
    /\ \E i \in 1 .. Len(convo_out) : convo_out[i].ok

\* C9 as stated: stream_conversations yields no conversation twice.
C9_EachConversationOnce ==
    \A g \in Groups : Cardinality(OkItems(convo_out, g)) <= 1

\* The conversation stream has nothing left to take.
ConvoQuiet == subscription = <<>> /\ event_queue = <<>>

\* C16 as stated: a conversation whose NewGroup event was dropped by lag for
\* the receiver of the conversation stream has been yielded by the stream
\* once the stream has taken everything that was delivered to it.
C16_LaggedGroupYielded ==
    ConvoQuiet =>
        \A g \in lagged : Matches(g) => OkItems(convo_out, g) # {}

\* ---------------------------- specification of the all-messages multiplexer
\* stream_all_messages_with_callback(client, conversation_type, callback)
\* has synced welcomes and loaded the snapshot (lines 433-445): group 1 was
\* joined through a welcome, group 2 was created locally.
MuxInit ==
    /\ stored = {StoredGroup(1, WelcomeIdOf(1)), StoredGroup(2, NoWelcome)}
    /\ pos = [g \in Groups |-> 0]
    /\ sent = [g \in Groups |-> 0]
    /\ invited = {WelcomeIdOf(1)}
    /\ redelivered = 0
    /\ conversation_type \in Filters
    /\ subscribed = FALSE
    /\ subscription = <<>>
    /\ event_queue = <<>>
    /\ convo_out = <<>>
    /\ pc = "created"
    /\ group_id_to_info = InitialSnapshot(stored, conversation_type)
    /\ messages_stream = NoStream
    /\ new_messages_stream = NoStream
    /\ extra_messages = <<>>
    /\ yielded = <<>>
    /\ wake = NoWake
    /\ IdleCalls
    /\ task = "running"
    /\ callback_log = 0
    /\ after_join = 0
    /\ ready_tx = "sent"
    /\ start = "some"
    /\ wait = "idle"
    /\ wait_calls = 0
    /\ join_result = "none"
    /\ IdleBus /\ IdleTrace /\ IdleSelect

Next ==
    \/ \E g \in RemoteGroups : RemoteInvite(g)
    \/ \E g \in LocalGroups : CreateGroupLocal(g)
    \/ \E g \in Groups : SendMessage(g)
    \/ \E g \in Groups : FanInReceive(g)
    \/ FirstPoll
    \/ DrainExtra
    \/ YieldMessage
    \/ \E src \in ConvoSources, f \in Faults : ConvoFilteredOut(src, f)
    \/ \E src \in ConvoSources, f \in Faults : ConvoError(src, f)
    \/ \E src \in ConvoSources, f \in Faults : ConvoDuplicate(src, f)
    \/ \E src \in ConvoSources, f \in Faults : ConvoNewGroup(src, f)
    \/ StreamMessagesOk
    \/ StreamMessagesErr
    \/ SwitchStreams

Spec == MuxInit /\ [][Next]_vars

Count(seq, x) == Cardinality({i \in 1 .. Len(seq) : seq[i] = x})

\* The stream has nothing left to do: the loop is waiting, nothing is
\* buffered, both conversation sources are empty and the active fan-in has
\* received every message sent in the groups it serves.
MuxIdle ==
    /\ pc = "loop"
    /\ extra_messages = <<>>
    /\ messages_stream.ready = <<>>
    /\ subscription = <<>> /\ event_queue = <<>>
    /\ \A g \in DOMAIN messages_stream.next :
            messages_stream.next[g] >= sent[g]

\* C1: when the active fan-in is replaced, every message the old fan-in
\* had ready is in extra_messages (or was yielded already).
C1_DrainKeepsReadyMessages ==
    [][(pc = "switching" /\ pc' # "switching") =>
        \A i \in 1 .. Len(messages_stream.ready) :
            Count(extra_messages', messages_stream.ready[i])
              + Count(yielded', messages_stream.ready[i]) >= 1]_vars

\* A rebuild has just replaced a fan-in that had a message ready.
C1_Witness ==
    /\ wake.branch = "switch"
    /\ extra_messages # <<>>

\* C2 as stated, in the form a finite run refutes: once the stream has
\* nothing left to do, every message sent in a group of group_id_to_info
\* has been yielded.
C2_EveryMessageYielded ==
    MuxIdle =>
        \A g \in DOMAIN group_id_to_info :
            \A i \in 1 .. sent[g] : Count(yielded, Msg(g, i)) >= 1

\* C3 as stated: no message is yielded twice.
C3_AtMostOnce ==
    \A g \in Groups : \A i \in 1 .. MaxMsgs : Count(yielded, Msg(g, i)) <= 1

ConvoStep ==
    \/ subscription # <<>> /\ subscription' = Tail(subscription)
    \/ event_queue # <<>> /\ event_queue' = Tail(event_queue)

\* C4: a step in which the conversation stream delivers Ok(group) for a
\* group_id that is a key of group_id_to_info changes neither the map, nor
\* the fan-ins, nor extra_messages, nor what was yielded, and the loop goes
\* on waiting.
C4_DuplicateGroupIsNoOp ==
    [][(ConvoStep /\ wake'.branch = "convo_ok"
            /\ wake'.group \in DOMAIN group_id_to_info) =>
        /\ UNCHANGED <<group_id_to_info, messages_stream, new_messages_stream,
                       extra_messages, yielded, callback_log>>
        /\ pc' = "loop"]_vars

\* The welcome of group 1, replayed by the subscription, was skipped after
\* the stream had yielded a message.
C4_Witness ==
    /\ wake = [branch |-> "convo_ok", group |-> 1]
    /\ pc = "loop"
    /\ 1 \in DOMAIN group_id_to_info
    /\ messages_stream.open
    /\ \E i \in 1 .. Len(yielded) : yielded[i].kind = "msg"

\* C8: every key of group_id_to_info and the group of every message
\* yielded is a conversation of the requested type (any type with None).
C8_OnlyRequestedType ==
    /\ \A g \in DOMAIN group_id_to_info : Matches(g)
    /\ \A i \in 1 .. Len(yielded) :
            yielded[i].kind = "msg" => Matches(yielded[i].group)

\* Under Some(Group) a message was sent in a Dm, a Dm was created while
\* streaming, and a message of a group added later has been yielded.
C8_Witness ==
    /\ conversation_type = "Group"
    /\ sent[2] > 0
    /\ \E r \in stored : r.id = 4
    /\ DOMAIN group_id_to_info = {1, 3}
    /\ Count(yielded, Msg(3, 1)) >= 1
    /\ MuxIdle

\* With None, messages of a Group and of a Dm have been yielded.
C8_WitnessNone ==
    /\ conversation_type = "None"
    /\ \E i \in 1 .. Len(yielded) :
            yielded[i].kind = "msg" /\ ConvType(yielded[i].group) = "Dm"
    /\ \E i \in 1 .. Len(yielded) :
            yielded[i].kind = "msg" /\ ConvType(yielded[i].group) = "Group"

\* The messages of group g in a sequence of items, in the sequence's order.
PerGroup(seq, g) == SelectSeq(seq, LAMBDA m : m.kind = "msg" /\ m.group = g)
FirstAt(seq, x) == CHOOSE i \in 1 .. Len(seq) :
                        seq[i] = x /\ \A j \in 1 .. i - 1 : seq[j] # x

\* C19: for each group, what a step yields is the oldest part of what is
\* waiting for that group, drained messages before the messages of the
\* active fan-in, in the order they were drained and produced; a drain
\* appends the old fan-in's ready messages in their order; and a message
\* sent after another of its group is not yielded before it.
C19_PerGroupOrder ==
    /\ [][\A g \in Groups :
            /\ \E waiting \in {PerGroup(extra_messages
                                        \o messages_stream.ready, g)} :
                \E k \in 0 .. Len(waiting) :
                    PerGroup(yielded', g) =
                        PerGroup(yielded, g) \o SubSeq(waiting, 1, k)
            /\ (pc = "switching" /\ pc' = "loop") =>
                    PerGroup(extra_messages', g) =
                        PerGroup(extra_messages, g)
                            \o PerGroup(messages_stream.ready, g)]_vars
    /\ [](\A g \in Groups : \A i, j \in 1 .. MaxMsgs :
            (i < j /\ Count(yielded, Msg(g, j)) >= 1) =>
                /\ Count(yielded, Msg(g, i)) >= 1
                /\ FirstAt(yielded, Msg(g, i)) < FirstAt(yielded, Msg(g, j)))

\* Two messages of one group were drained from the old fan-in and have been
\* yielded, and the new fan-in has a message of that group ready.
C19_Witness ==
    /\ wake.branch = "extra"
    /\ \E g \in Groups :
            /\ Len(PerGroup(yielded, g)) >= 2
            /\ PerGroup(messages_stream.ready, g) # <<>>

\* The stream takes the oldest ready item of the active fan-in.
FanInTaken ==
    /\ messages_stream.ready # <<>>
    /\ messages_stream' = [messages_stream EXCEPT !.ready = Tail(@)]

\* C20: while extra_messages is non-empty no step takes an item from the
\* active fan-in or from the conversation stream, and the only items then
\* yielded are all of extra_messages, which is emptied; extra_messages is
\* empty all through a rebuild, up to its drain.
C20_ExtraMessagesFirst ==
    /\ [][extra_messages # <<>> =>
            /\ ~FanInTaken
            /\ ~ConvoStep
            /\ yielded' # yielded =>
                    (yielded' = yielded \o extra_messages
                        /\ extra_messages' = <<>>)]_vars
    /\ [](pc \in {"rebuilding", "switching"} => extra_messages = <<>>)

\* Drained messages were waiting while the new fan-in had a message ready
\* and the conversation stream had an item; the drained messages were
\* yielded first.
C20_Witness ==
    /\ wake.branch = "extra"
    /\ messages_stream.ready # <<>>
    /\ \E src \in ConvoSources : SourceReady(src)

\* C21: a step that handles an item of the conversation stream starts with
\* extra_messages empty and nothing ready on the active fan-in; and a wake
\* of the select! that yields while the fan-in has a message ready and
\* extra_messages is empty yields that message, whether or not a
\* conversation item is ready.
C21_MessageBeforeConversation ==
    /\ [][ConvoStep =>
            (extra_messages = <<>> /\ messages_stream.ready = <<>>)]_vars
    /\ [][(pc = "loop" /\ extra_messages = <<>>
            /\ messages_stream.ready # <<>> /\ yielded' # yielded) =>
            yielded' = Append(yielded, Head(messages_stream.ready))]_vars

\* A message was yielded at a wake at which the conversation stream had an
\* item ready too, and the item is still waiting.
C21_Witness ==
    /\ wake.branch = "message"
    /\ extra_messages = <<>>
    /\ \E src \in ConvoSources : SourceReady(src)

\* C22: the step in which the rebuild fails yields the one item
\* Err(FailedToStartNewMessagesStream) and changes neither the active
\* fan-in nor extra_messages; the stream is back in its loop with the old
\* fan-in open.
C22_FailedRebuildKeepsOldFanIn ==
    [][(pc = "rebuilding" /\ pc' = "loop") =>
        /\ yielded' =
                Append(yielded, ErrItem("FailedToStartNewMessagesStream"))
        /\ messages_stream' = messages_stream
        /\ messages_stream'.open
        /\ new_messages_stream' = NoStream
        /\ extra_messages' = extra_messages /\ extra_messages = <<>>]_vars

\* After a failed rebuild the old fan-in received a message of a group of
\* the initial snapshot and the stream yielded it.
C22_Witness ==
    /\ wake.branch = "message" /\ wake.group \in InitialGroups
    /\ new_messages_stream = NoStream
    /\ \E i \in 1 .. Len(yielded) :
            /\ yielded[i].kind = "FailedToStartNewMessagesStream"
            /\ \A j \in i + 1 .. Len(yielded) : yielded[j].kind = "msg"
            /\ i < Len(yielded)
    /\ Cardinality(DOMAIN group_id_to_info) = 3

CursorOne(info) == {g \in DOMAIN info : info[g].cursor = 1}

\* C23: every cursor of group_id_to_info is 0 or 1 and at most one is 1;
\* the initial snapshot holds only 0; a step that adds a group G leaves the
\* other keys in place with cursor 0 and gives G cursor 1 and its creation
\* time; no other step changes the map, so the entry with cursor 1 is the
\* group inserted last.
C23_CursorsZeroOrOne ==
    /\ [](\A g \in DOMAIN group_id_to_info :
            /\ group_id_to_info[g].cursor \in {0, 1}
            /\ group_id_to_info[g].convo_created_at_ns = CreatedAt(g))
    /\ [](Cardinality(CursorOne(group_id_to_info)) <= 1)
    /\ [](pc = "created" => CursorOne(group_id_to_info) = {})
    /\ [][group_id_to_info' # group_id_to_info =>
            \E G \in Groups \ DOMAIN group_id_to_info :
                /\ DOMAIN group_id_to_info' = DOMAIN group_id_to_info \cup {G}
                /\ CursorOne(group_id_to_info') = {G}
                /\ wake'.group = G]_vars

\* Two groups were discovered one after the other: the first has been reset
\* to cursor 0 and the second has cursor 1.
C23_Witness ==
    /\ {3, 4} \subseteq DOMAIN group_id_to_info
    /\ Cardinality(CursorOne(group_id_to_info)) = 1
    /\ \E g \in {3, 4} : group_id_to_info[g].cursor = 0

\* --------------------------------- specification of the callback task
\* stream_all_messages_with_callback(client, None, callback) whose handle
\* is ended and joined while messages are sent and a group is created.
NoFaults == [engine |-> TRUE, db |-> TRUE, meta |-> TRUE]

TaskInit ==
    /\ MuxInit
    /\ conversation_type = "None"

TaskNext ==
    \/ \E g \in LocalGroups : CreateGroupLocal(g)
    \/ \E g \in Groups : SendMessage(g)
    \/ \E g \in Groups : FanInReceive(g)
    \/ FirstPoll
    \/ DrainExtra
    \/ YieldMessage
    \/ \E src \in ConvoSources : ConvoDuplicate(src, NoFaults)
    \/ \E src \in ConvoSources : ConvoNewGroup(src, NoFaults)
    \/ StreamMessagesOk
    \/ StreamMessagesErr
    \/ SwitchStreams
    \/ Abort
    \/ TaskEnds
    \/ Join

TaskSpec == TaskInit /\ [][TaskNext]_vars

\* C10: once the handle was ended and join has completed, the callback is
\* not invoked again.
C10_NoCallbackAfterJoin ==
    [][task = "joined" => callback_log' = callback_log]_vars

\* The callback had been invoked, the handle was joined, and afterwards a
\* message was sent in a streamed group that the stream never received.
C10_Witness ==
    /\ task = "joined"
    /\ callback_log >= 1
    /\ after_join >= 1
    /\ \E g \in DOMAIN group_id_to_info : sent[g] > pos[g]

\* ------------------------------ specification of the handle and the startup
\* stream_all_messages_with_callback(client, None, callback) has just
\* spawned its task (line 533): group 2 was created locally, the welcome of
\* group 1 is on the server and not synced yet.  The caller holds the handle.
HandleInit ==
    /\ stored = {StoredGroup(2, NoWelcome)}
    /\ pos = [g \in Groups |-> 0]
    /\ sent = [g \in Groups |-> 0]
    /\ invited = {WelcomeIdOf(1)}
    /\ redelivered = 0
    /\ IdleConvo /\ IdleMux /\ IdleCalls
    /\ task = "spawned"
    /\ callback_log = 0
    /\ after_join = 0
    /\ ready_tx = "held"
    /\ start = "some"
    /\ wait = "idle"
    /\ wait_calls = 0
    /\ join_result = "none"
    /\ IdleBus /\ IdleTrace /\ IdleSelect

HandleNext ==
    \/ \E g \in LocalGroups : CreateGroupLocal(g)
    \/ \E g \in Groups : SendMessage(g)
    \/ \E g \in Groups : FanInReceive(g)
    \/ ConstructOk
    \/ \E step \in ConstructSteps : ConstructErr(step)
    \/ SendReady
    \/ FirstPoll
    \/ \E which \in InitialSubscriptions : FirstPollErr(which)
    \/ DrainExtra
    \/ YieldMessage
    \/ \E src \in ConvoSources : ConvoDuplicate(src, NoFaults)
    \/ \E src \in ConvoSources : ConvoNewGroup(src, NoFaults)
    \/ StreamMessagesOk
    \/ StreamMessagesErr
    \/ SwitchStreams
    \/ FanInCloses
    \/ TaskReturns
    \/ AbortEarly
    \/ Abort
    \/ TaskEnds
    \/ Join
    \/ WaitForReadyCall
    \/ WaitForReadyReturns

HandleSpec == HandleInit /\ [][HandleNext]_vars

\* The runtime runs the spawned task and the caller's wait: the awaited
\* constructor returns, the task goes on to send the signal, and a resolved
\* receiver wakes the waiter.
FairHandleSpec ==
    /\ HandleSpec
    /\ WF_vars(ConstructOk \/ \E step \in ConstructSteps : ConstructErr(step))
    /\ WF_vars(SendReady)
    /\ WF_vars(WaitForReadyReturns)

\* C11: a wait_for_ready that waits on the channel returns; only the first
\* call waits and a later call returns at once; when the task failed before
\* the signal the sender is dropped, and join returns the task's error.
C11_WaitForReadyCompletes ==
    /\ (wait = "waiting") ~> (wait = "returned")
    /\ [][(wait' = "waiting" /\ wait # "waiting") =>
            (wait_calls = 0 /\ start = "some" /\ start' = "taken")]_vars
    /\ [][(wait_calls >= 1 /\ wait_calls' = wait_calls + 1) =>
            wait' = "returned"]_vars
    /\ [](task = "failed" => ready_tx = "dropped")
    /\ [][(task = "failed" /\ task' = "joined") => join_result' = "Err"]_vars

\* The constructor failed, the waiter had been waiting and returned, a
\* second call returned too, and join gave the error.
C11_Witness ==
    /\ join_result = "Err"
    /\ ready_tx = "dropped"
    /\ wait = "returned"
    /\ wait_calls = 2

\* C12: the ready signal is sent once, by the task whose constructor has
\* returned the stream and before the stream is polled; the callback is not
\* invoked before it; after a failed constructor the signal is never sent
\* and the callback is never invoked.
C12_ReadyOnceBeforeFirstItem ==
    /\ [](callback_log > 0 => ready_tx = "sent")
    /\ [](pc \notin {"off", "created"} => ready_tx = "sent")
    /\ [](ready_tx = "sent" => pc # "off")
    /\ []((task = "failed" \/ join_result = "Err") =>
            (ready_tx = "dropped" /\ callback_log = 0))
    /\ [][(ready_tx' = "sent" /\ ready_tx # "sent") =>
            (ready_tx = "held" /\ task = "constructed" /\ pc = "created")]_vars
    /\ [][ready_tx = "sent" => ready_tx' = "sent"]_vars

\* The signal was sent, the waiter returned and the callback has been
\* invoked with a message.
C12_Witness ==
    /\ ready_tx = "sent"
    /\ wait = "returned"
    /\ callback_log >= 1
    /\ \E i \in 1 .. Len(yielded) : yielded[i].kind = "msg"

\* The stream is in its loop with nothing left to handle.
HandleQuiet ==
    /\ pc = "loop" /\ task = "running"
    /\ subscription = <<>> /\ event_queue = <<>>
    /\ extra_messages = <<>> /\ messages_stream.ready = <<>>

\* C13 as stated: once wait_for_ready has returned on a sent signal, every
\* group created from then on is observed by the stream, which comes to
\* stream it.
C13_ObservedAfterReady ==
    (wait = "returned" /\ ready_tx = "sent" /\ HandleQuiet) =>
        \A g \in late_groups : g \in DOMAIN group_id_to_info

\* C28 as stated: whenever the loop is at its select!, the groups the active
\* fan-in serves are the keys of group_id_to_info, also after a rebuild
\* that failed.
C28_FanInServesKeySet ==
    pc = "loop" => DOMAIN messages_stream.next = DOMAIN group_id_to_info

\* The same with the failed rebuilds set apart: the loop is at its select!
\* and no rebuild has failed so far.
C28_HoldsWithoutFailedRebuild ==
    (pc = "loop" /\ \A i \in 1 .. Len(yielded) :
                        yielded[i].kind # "FailedToStartNewMessagesStream")
        => DOMAIN messages_stream.next = DOMAIN group_id_to_info

\* --------------------------------------- specification of the exhaustion
\* stream_all_messages_with_callback over groups 1 and 2; the upstreams of
\* the loop can end: the active fan-in when the transport closes it, the
\* conversation stream when both of its sides have ended.
ExhaustNext ==
    \/ \E g \in RemoteGroups : ~convo_ended /\ RemoteInvite(g)
    \/ \E g \in Groups : SendMessage(g)
    \/ \E g \in Groups : FanInReceive(g)
    \/ FirstPoll
    \/ DrainExtra
    \/ YieldMessage
    \/ \E src \in ConvoSources : ConvoDuplicate(src, NoFaults)
    \/ \E src \in ConvoSources : ConvoNewGroup(src, NoFaults)
    \/ StreamMessagesOk
    \/ SwitchStreams
    \/ FanInCloses
    \/ ConvoStreamCloses
    \/ SelectAllDisabled

ExhaustSpec == TaskInit /\ [][ExhaustNext]_vars

C29_FailsOnlyWhenBothExhausted ==
    pc = "panicked" =>
        messages_stream.ended /\ convo_ended /\ extra_messages = <<>>
C29_ServesConversationsAfterFanInEnd ==
    /\ wake.branch = "convo_ok" /\ wake.group \in RemoteGroups
    /\ messages_stream.ended
    /\ new_messages_stream.open
C29_ServesMessagesAfterConvoEnd ==
    /\ convo_ended /\ ~messages_stream.ended
    /\ wake.branch = "message"
    /\ \E i \in 1 .. Len(yielded) : pos[yielded[i].group] >= yielded[i].seq

\* ------------------------------------ specification of the busy fan-in
\* stream_all_messages_with_callback over groups 1 and 2, whose
\* conversations never fall silent; a conversation is created remotely
\* and one locally while the consumer polls the stream.
BusyNext ==
    \/ \E g \in RemoteGroups : RemoteInvite(g)
    \/ \E g \in LocalGroups : CreateGroupLocal(g)
    \/ \E g \in Groups : FanInProduces(g)
    \/ FirstPoll
    \/ DrainExtra
    \/ DeliverMessage
    \/ \E src \in ConvoSources : ConvoDuplicate(src, NoFaults)
    \/ \E src \in ConvoSources : ConvoNewGroup(src, NoFaults)
    \/ StreamMessagesOk
    \/ SwitchStreams

BusySpec == TaskInit /\ [][BusyNext]_vars

\* One step of the stream's body: the consumer polls and the body takes
\* the first branch that is ready.
BodyStep ==
    \/ FirstPoll
    \/ DrainExtra
    \/ DeliverMessage
    \/ \E src \in ConvoSources : ConvoDuplicate(src, NoFaults)
    \/ \E src \in ConvoSources : ConvoNewGroup(src, NoFaults)
    \/ StreamMessagesOk
    \/ SwitchStreams

\* The consumer keeps polling: the body is not left waiting for ever
\* with a branch ready.
FairBusySpec == BusySpec /\ WF_vars(BodyStep)

\* The conversation stream holds conversation g for the loop.
ConvoHolds(g) ==
    \/ \E i \in 1 .. Len(subscription) :
            subscription[i].w = WelcomeIdOf(g)
    \/ \E i \in 1 .. Len(event_queue) :
            event_queue[i] = NewGroupEvent(g)
Handled(g) ==
    /\ g \in DOMAIN group_id_to_info
    /\ g \in DOMAIN messages_stream.next

\* C31 as stated: while the consumer keeps polling, a conversation the
\* conversation stream holds for the loop is eventually a key of
\* group_id_to_info and a group of the active fan-in, also when the fan-in
\* keeps producing messages.
C31_DiscoveryNotStarved ==
    /\ (pc = "loop" /\ ConvoHolds(3)) ~> Handled(3)
    /\ (pc = "loop" /\ ConvoHolds(4)) ~> Handled(4)

\* The loop took a message while the conversation stream held a
\* conversation it had not handled.
C31_MessageOvertakesConversation ==
    /\ pc = "loop"
    /\ wake.branch = "message"
    /\ \E g \in NewGroups : ConvoHolds(g) /\ ~Handled(g)

\* A conversation was handled between two messages of the busy fan-in.
C31_HandledWhenFanInPending ==
    /\ pc = "loop"
    /\ \E g \in NewGroups : Handled(g)
    /\ wake.branch = "message"

\* ---------------------------------- specification of the startup gap
\* stream_all_messages_with_callback(client, conversation_type, callback)
\* has loaded its snapshot of groups 1 and 2; conversations are created
\* remotely and locally from then on, before and after the first poll of
\* the stream, and nothing fails.
GapNext ==
    \/ \E g \in RemoteGroups : RemoteInvite(g)
    \/ \E g \in LocalGroups : CreateGroupLocal(g)
    \/ \E g \in Groups : SendMessage(g)
    \/ \E g \in Groups : FanInReceive(g)
    \/ FirstPoll
    \/ DrainExtra
    \/ YieldMessage
    \/ \E src \in ConvoSources : ConvoFilteredOut(src, NoFaults)
    \/ \E src \in ConvoSources : ConvoDuplicate(src, NoFaults)
    \/ \E src \in ConvoSources : ConvoNewGroup(src, NoFaults)
    \/ StreamMessagesOk
    \/ SwitchStreams

GapSpec == MuxInit /\ [][GapNext]_vars

\* The loop has taken everything its sources held.
GapQuiet ==
    /\ pc = "loop"
    /\ subscription = <<>> /\ event_queue = <<>>
    /\ extra_messages = <<>> /\ messages_stream.ready = <<>>

\* C32 as stated: once the loop has taken everything its sources held,
\* every matching conversation created after the snapshot was loaded,
\* remotely or locally, before or after the first poll, is a key of
\* group_id_to_info.
C32_NoGroupInStartupGap ==
    GapQuiet =>
        \A g \in NewGroups :
            (Known(g) /\ Matches(g)) => g \in DOMAIN group_id_to_info

\* The part that holds: a conversation created remotely is found through
\* the welcome subscription, which replays from cursor 0.
C32_InvitedGroupsFound ==
    GapQuiet =>
        \A g \in RemoteGroups :
            (Known(g) /\ Matches(g)) => g \in DOMAIN group_id_to_info

\* A conversation created remotely before the first poll was added.
C32_InvitedInGapFound ==
    /\ GapQuiet
    /\ 3 \in DOMAIN group_id_to_info
    /\ \A g \in LocalGroups : ~Known(g)

\* ------------------------------------- specification of the failing items
\* Either stream_conversations(conversation_type) has returned its stream
\* to a fresh client, or stream_all_messages has returned its stream to a
\* client with two conversations; items of the conversation sources can
\* fail.  Messages are sent in the conversations that appear afterwards.
ErrInit == ConvoInit \/ MuxInit

ErrNext ==
    \/ \E g \in RemoteGroups : RemoteInvite(g)
    \/ \E g \in LocalGroups : CreateGroupLocal(g)
    \/ WelcomeTransportError
    \/ \E g \in NewGroups : SendMessage(g)
    \/ \E g \in Groups : FanInReceive(g)
    \/ \E src \in ConvoSources, f \in Faults : ConvoNext(src, f)
    \/ FirstPoll
    \/ DrainExtra
    \/ YieldMessage
    \/ \E src \in ConvoSources, f \in Faults : ConvoFilteredOut(src, f)
    \/ \E src \in ConvoSources, f \in Faults : ConvoError(src, f)
    \/ \E src \in ConvoSources, f \in Faults : ConvoDuplicate(src, f)
    \/ \E src \in ConvoSources, f \in Faults : ConvoNewGroup(src, f)
    \/ StreamMessagesOk
    \/ StreamMessagesErr
    \/ SwitchStreams

ErrSpec == ErrInit /\ [][ErrNext]_vars

\* An item of a conversation source is taken.
ConvoItemTaken ==
    \/ subscription # <<>> /\ subscription' = Tail(subscription)
    \/ event_queue # <<>> /\ event_queue' = Tail(event_queue)

\* C25: an item of the conversation sources that fails is yielded as one
\* Err item and the stream stays usable: stream_conversations appends the
\* Err and keeps its sources; stream_all_messages yields the Err, leaves
\* group_id_to_info, both fan-ins and extra_messages as they were and is
\* back at the top of its loop.
C25_ErrItemDoesNotEndStream ==
    /\ [][(ConvoItemTaken /\ wake'.branch = "failed") =>
            /\ Len(convo_out') = Len(convo_out) + 1
            /\ ~convo_out'[Len(convo_out')].ok
            /\ subscribed' /\ pc' = "off"]_vars
    /\ [][(ConvoItemTaken /\ wake'.branch = "convo_err") =>
            /\ Len(yielded') = Len(yielded) + 1
            /\ yielded'[Len(yielded')].kind # "msg"
            /\ pc = "loop" /\ pc' = "loop"
            /\ UNCHANGED <<group_id_to_info, messages_stream,
                           new_messages_stream, extra_messages>>]_vars
    /\ [](\A i \in 1 .. Len(yielded) :
            yielded[i].kind # "msg" => pc # "ended")

\* stream_all_messages yielded the Err of a failed conversation item, then
\* discovered a conversation and yielded a message of it.
C25_Witness ==
    \E i, j \in 1 .. Len(yielded) :
        /\ i < j
        /\ yielded[i].kind # "msg"
        /\ yielded[j].kind = "msg" /\ yielded[j].group \in NewGroups
        /\ yielded[j].group \in DOMAIN group_id_to_info

\* ------------------------------------------- specification of the merge
\* stream_conversations(conversation_type) has returned its stream to a
\* fresh client; welcomes arrive, arrive again, fail in transport, and the
\* client creates conversations, while the merged stream is polled.
MergeNext ==
    \/ \E g \in NewGroups : RemoteInvite(g)
    \/ \E g \in NewGroups : CreateGroupLocal(g)
    \/ \E w \in WelcomeIds : WelcomeRedeliver(w)
    \/ WelcomeTransportError
    \/ \E f \in Faults : SelectPoll(f)
    \/ SelectPending

MergeSpec == ConvoInit /\ [][MergeNext]_vars

\* The poll took an item of this side.
Took(side) ==
    IF side = "event_queue"
    THEN SideReady(side) /\ Len(event_queue') < Len(event_queue)
    ELSE subscription # <<>> /\ subscription' = Tail(subscription)

\* C27: neither source of stream_conversations is starved: a poll that
\* takes an item of one side while the other side has an item ready was
\* that side's turn and hands the turn to the other side, whose item is
\* still ready; the side whose turn it is keeps the turn until a poll takes
\* its ready item, and that poll takes no item of the other side.  A ready
\* item is therefore yielded after at most one item of the other source.
C27_NeitherSourceStarved ==
    /\ [][\A side \in ConvoSources :
            (Took(side) /\ SideReady(OtherSide(side))) =>
                /\ poll_next = side
                /\ poll_next' = OtherSide(side)
                /\ SideReady(OtherSide(side))']_vars
    /\ [][\A side \in ConvoSources :
            (poll_next = side /\ SideReady(side)) =>
                /\ ~Took(OtherSide(side))
                /\ ~Took(side) => poll_next' = side]_vars

\* The stream has just yielded the conversation of a welcome; both sources
\* have an item ready and the turn is with the event_queue side.
C27_Witness ==
    /\ convo_out # <<>>
    /\ convo_out[Len(convo_out)].ok
    /\ WelcomeIdOf(convo_out[Len(convo_out)].group) \in invited
    /\ SideReady("event_queue") /\ SideReady("subscription")
    /\ poll_next = "event_queue"

\* ----------------------------------------- specification of the startup
\* stream_all_messages_with_callback(client, conversation_type, callback)
\* is called by a client that created group 2 and has any of the welcomes
\* of groups 1 and 3 waiting on the server.
StartupInit ==
    /\ stored = {StoredGroup(2, NoWelcome)}
    /\ pos = [g \in Groups |-> 0]
    /\ sent = [g \in Groups |-> 0]
    /\ invited \in SUBSET {WelcomeIdOf(1), WelcomeIdOf(3)}
    /\ redelivered = 0
    /\ conversation_type \in Filters
    /\ subscribed = FALSE
    /\ subscription = <<>>
    /\ event_queue = <<>>
    /\ convo_out = <<>>
    /\ IdleMux /\ IdleCalls
    /\ task = "spawned"
    /\ callback_log = 0
    /\ after_join = 0
    /\ ready_tx = "held"
    /\ start = "some"
    /\ wait = "idle"
    /\ wait_calls = 0
    /\ join_result = "none"
    /\ IdleBus /\ IdleTrace /\ IdleSelect

StartupNext ==
    \/ \E g \in Groups : SendMessage(g)
    \/ \E g \in Groups : FanInReceive(g)
    \/ ConstructOk
    \/ \E step \in ConstructSteps : ConstructErr(step)
    \/ SendReady
    \/ FirstPoll
    \/ \E which \in InitialSubscriptions : FirstPollErr(which)
    \/ YieldMessage

StartupSpec == StartupInit /\ [][StartupNext]_vars

\* C24: when the constructor has returned the stream, every welcome the
\* server held at the call is materialized, and every such conversation
\* that matches the filter is a key of group_id_to_info with cursor 0; the
\* first fan-in is built over the keys of that map.
C24_SyncThenSnapshotThenFanIn ==
    /\ [](pc # "off" =>
            \A w \in invited :
                /\ StoredGroup(GroupOfWelcome(w), w) \in stored
                /\ Matches(GroupOfWelcome(w)) =>
                    /\ GroupOfWelcome(w) \in DOMAIN group_id_to_info
                    /\ group_id_to_info[GroupOfWelcome(w)].cursor = 0)
    /\ [][(pc = "created" /\ pc' = "loop") =>
            DOMAIN messages_stream'.next = DOMAIN group_id_to_info]_vars

\* Both welcomes were waiting at the call; the stream is in its loop and
\* has yielded a message of one of these conversations.
C24_Witness ==
    /\ invited = {WelcomeIdOf(1), WelcomeIdOf(3)}
    /\ pc = "loop"
    /\ {1, 3} \subseteq DOMAIN messages_stream.next
    /\ \E i \in 1 .. Len(yielded) : yielded[i].group \in {1, 3}

\* ------------------------------------ specification of the filter views
\* A receiver of the bus was subscribed and wrapped in one of the views;
\* events are sent on the bus while the view is polled.
BusInit ==
    /\ IdleStore /\ IdleConvo /\ IdleMux /\ IdleCalls /\ IdleTask
    /\ IdleHandle /\ IdleTrace /\ IdleSelect
    /\ stream_kind \in StreamKinds
    /\ bus_in = <<>>
    /\ bus_out = <<>>
    /\ published = 0

BusNext ==
    \/ \E event \in BusEvents : BusPublish(event)
    \/ BusStreamNext

BusSpec == BusInit /\ [][BusNext]_vars

IsConsent(u) == u.kind = "ConsentUpdate"
IsOther(u) == u.kind # "ConsentUpdate"
Payloads(us) == [i \in 1 .. Len(us) |-> us[i].payload]
Received == {i \in 1 .. Len(bus_in) : IsPreferenceEvent(bus_in[i])}
OutputOf(i) == Cardinality({j \in 1 .. i : IsPreferenceEvent(bus_in[j])})

\* C14: for every preference event with update list U that a view received,
\* consent_filter gives the ConsentUpdate payloads of U in U's order,
\* preference_filter gives the other elements of U in U's order, the two
\* outputs together have as many elements as U, and the consent and the
\* preference stream yielded exactly these lists for the event.
C14_FiltersPartitionUpdates ==
    \A i \in Received :
        LET U == bus_in[i].updates
            consents == ConsentFilter(bus_in[i])
            others == PreferenceFilter(bus_in[i])
        IN  /\ consents.some /\ others.some
            /\ consents.value.updates = Payloads(SelectSeq(U, IsConsent))
            /\ others.value.updates = SelectSeq(U, IsOther)
            /\ Len(consents.value.updates) + Len(others.value.updates) = Len(U)
            /\ \A j \in 1 .. Len(others.value.updates) :
                    ~IsConsent(others.value.updates[j])
            /\ stream_kind = "consent" =>
                    bus_out[OutputOf(i)].updates = consents.value.updates
            /\ stream_kind = "preference" =>
                    bus_out[OutputOf(i)].updates = others.value.updates

\* The preference stream yielded the one other update of a list that also
\* holds a consent update.
C14_Witness ==
    /\ stream_kind = "preference"
    /\ \E i \in Received :
            /\ Len(bus_in[i].updates) = 2
            /\ \E j \in 1 .. 2 : IsConsent(bus_in[i].updates[j])
            /\ Len(bus_out[OutputOf(i)].updates) = 1

\* The events each view is specified to pass on.
KindMatches(kind, event) ==
    CASE kind = "group" -> event.ev = "NewGroup"
      [] kind = "sync" -> event.ev \in {"SyncMessage",
                                         "OutgoingPreferenceUpdates",
                                         "IncomingPreferenceUpdate"}
      [] OTHER -> event.ev \in {"OutgoingPreferenceUpdates",
                                "IncomingPreferenceUpdate"}

\* C15: every item a view yields is Ok and none is the lag notification; a
\* view has yielded one item for each matching event it received, those
\* received after a lag notification included.
C15_LagIsSkipped ==
    /\ \A j \in 1 .. Len(bus_out) : bus_out[j].ok /\ bus_out[j].ev # "Lagged"
    /\ Len(bus_out) =
        Cardinality({i \in 1 .. Len(bus_in) :
                        KindMatches(stream_kind, bus_in[i])})

\* The receiver lagged, the view took the notification and then yielded the
\* matching event that followed it.
C15_Witness ==
    /\ Len(bus_in) = 2 /\ bus_in[1] = Lagged
    /\ KindMatches(stream_kind, bus_in[2])
    /\ Len(bus_out) = 1 /\ bus_out[1].ok

\* The views each variant of LocalEvents is routed to.
RoutedTo(ev) ==
    CASE ev = "NewGroup" -> {"group"}
      [] ev = "SyncMessage" -> {"sync"}
      [] ev \in {"OutgoingPreferenceUpdates", "IncomingPreferenceUpdate"} ->
            {"sync", "consent", "preference"}
      [] OTHER -> {}

\* C26: the event a view takes from the bus produces an item exactly when
\* the view is one its variant is routed to: NewGroup only on the
\* conversation view, SyncMessage only on the sync view, the two preference
\* variants on the sync, consent and preference views; the sync view hands
\* on the event itself and the conversation view the group of the event.
C26_RoutingByVariant ==
    [][bus_in' # bus_in =>
        LET event == bus_in'[Len(bus_in')]
        IN  IF stream_kind \in RoutedTo(event.ev)
            THEN /\ Len(bus_out') = Len(bus_out) + 1
                 /\ SubSeq(bus_out', 1, Len(bus_out)) = bus_out
                 /\ stream_kind = "sync" =>
                        /\ bus_out'[Len(bus_out')].ev = event.ev
                        /\ bus_out'[Len(bus_out')].updates = event.updates
                 /\ stream_kind = "group" =>
                        bus_out'[Len(bus_out')].group = event.group
            ELSE bus_out' = bus_out]_vars

\* The sync view took a NewGroup event and a preference event and yielded
\* the preference event only.
C26_Witness ==
    /\ stream_kind = "sync"
    /\ Len(bus_in) = 2
    /\ bus_in[1].ev = "NewGroup"
    /\ IsPreferenceEvent(bus_in[2])
    /\ bus_out # <<>>
    /\ bus_out[1].ev = bus_in[2].ev

\* C30: the consent stream and the preference stream have yielded exactly
\* one item for every preference event they received, in the order of the
\* events; the item of an event with no ConsentUpdate is the empty list on
\* the consent stream, and the item of an event with only ConsentUpdates
\* is the empty list on the preference stream.
C30_OneItemPerPreferenceEvent ==
    stream_kind \in {"consent", "preference"} =>
        /\ Len(bus_out) = Cardinality(Received)
        /\ \A i \in Received :
            LET U == bus_in[i].updates
                item == bus_out[OutputOf(i)]
            IN  /\ item.ok
                /\ item.ev = IF stream_kind = "consent" THEN "ConsentRecords"
                             ELSE "PreferenceUpdates"
                /\ (stream_kind = "consent" /\ SelectSeq(U, IsConsent) = <<>>)
                        => item.updates = <<>>
                /\ (stream_kind = "preference"
                        /\ SelectSeq(U, IsOther) = <<>>)
                        => item.updates = <<>>

\* The consent stream yielded an empty list for an event whose only update
\* is not a consent update, and then the record of the next event.
C30_Witness ==
    /\ stream_kind = "consent"
    /\ Len(bus_in) = 2 /\ Len(bus_out) = 2
    /\ bus_in[1].updates = <<HmacKeyUpdate(1)>>
    /\ bus_out[1].updates = <<>>
    /\ Len(bus_out[2].updates) = 1

\* C17 as stated: when the initial welcome sync, the snapshot query or an
\* initial subscription has failed, the constructor has returned an error:
\* there is no stream and nothing was yielded; a failure after construction
\* is an Err item.
C17_ConstructionFailureIsConstructorError ==
    /\ wake.branch \in ConstructSteps \cup InitialSubscriptions =>
            /\ pc = "off"
            /\ yielded = <<>>
            /\ task \in {"failed", "joined"}
    /\ wake.branch = "rebuild_err" =>
            /\ yielded # <<>>
            /\ yielded[Len(yielded)].kind = "FailedToStartNewMessagesStream"

\* The consumer has aborted the stream.
Aborted == task \in {"ending", "finished"} \/ join_result = "Cancelled"

\* futures::stream::select(event_queue, subscription) ends when both sides
\* have ended, and the bus receiver ends only when every sender is gone; the
\* sender belongs to the client the stream borrows.
ConvoStreamEnded == convo_ended

\* C18 as stated: the stream has ended only if it was aborted or both the
\* fan-in and the conversation stream had ended.
C18_EndsOnlyWhenExhausted ==
    pc = "ended" => (Aborted \/ (messages_stream.ended /\ ConvoStreamEnded))

====
